---- MODULE Spec2Model ----
(***************************************************************************)
(* History & job reconciliation engine of zkbob-client-js                  *)
(* (class HistoryStorage, src/unnamed/part_001, and the job monitor of     *)
(* ZkBobClient, src/src/index.ts).                                         *)
(*                                                                         *)
(* Tree indexes are multiples of OUTPLUSONE; a transaction hash is a       *)
(* natural number, 0 standing for the placeholder '0' of a record whose    *)
(* hash is not assigned yet and NoHash for an absent (undefined) hash.     *)
(* Speculative records are objects shared by reference between the maps    *)
(* and lists of HistoryStorage: they live in the heap `recs` and the       *)
(* collections hold entries whose field ref names the object.              *)
(***************************************************************************)
EXTENDS Integers, Sequences, FiniteSets, TLC

\* ------------------------------------------------------------------ bounds
MaxSlot == 1          \* memo slots 0..MaxSlot (tree index = slot * OUTPLUSONE)
NumJobs == 1          \* submitted jobs 1..NumJobs
NumCallers == 2       \* concurrent callers of getAllHistory
MaxDeposits == 2      \* deposits of a direct-deposit batch
MaxCalls == 5         \* calls made to the HistoryStorage by the client and its job monitors

\* ------------------------------------------------------- program constants
OUTLOG == 7
OUTPLUSONE == 2 ^ OUTLOG
MAX_SYNC_ATTEMPTS == 3

Slots == 0 .. MaxSlot
Jobs == 1 .. NumJobs
Callers == 1 .. NumCallers
NoHash == -1
NoVal == -2           \* absent key of the HISTORY_STATE table

\* mask = (-1) << OUTLOG; memoIndex = index & mask
MemoKey(index) == index - (index % OUTPLUSONE)

\* ------------------------------------------------------------- sequences
Contains(s, x) == \E i \in 1 .. Len(s) : s[i] = x
Range(s) == { s[i] : i \in 1 .. Len(s) }
RECURSIVE RemoveDuplicatesFrom(_, _)
RemoveDuplicatesFrom(acc, s) ==
  IF s = << >> THEN acc
  ELSE RemoveDuplicatesFrom(IF Contains(acc, Head(s)) THEN acc ELSE Append(acc, Head(s)), Tail(s))
removeDuplicates(s) == RemoveDuplicatesFrom(<< >>, s)
RemoveAt(s, i) == SubSeq(s, 1, i - 1) \o SubSeq(s, i + 1, Len(s))
SeqMap(Op(_), s) == [ i \in 1 .. Len(s) |-> Op(s[i]) ]
\* the sequences without repetition over a set (orders of a remote answer)
RECURSIVE Orderings(_)
Orderings(S) ==
  IF S = {} THEN { << >> }
  ELSE UNION { { << x >> \o t : t \in Orderings(S \ {x}) } : x \in S }
\* ascending sequence of a set of integers (IndexedDB returns keys in order)
RECURSIVE SortedSeq(_)
SortedSeq(S) ==
  IF S = {} THEN << >>
  ELSE LET m == CHOOSE x \in S : \A y \in S : x <= y IN << m >> \o SortedSeq(S \ {m})
Max(a, b) == IF a > b THEN a ELSE b

\* ------------------------------------------------- Map<number, DecryptedMemo>
\* A JavaScript Map keeps insertion order: a sequence of [k, v] with unique k.
MapKeys(m) == { m[i].k : i \in 1 .. Len(m) }
MapValues(m) == [ i \in 1 .. Len(m) |-> m[i].v ]
MapSet(m, key, val) ==
  IF key \in MapKeys(m)
  THEN [ i \in 1 .. Len(m) |-> IF m[i].k = key THEN [k |-> key, v |-> val] ELSE m[i] ]
  ELSE Append(m, [k |-> key, v |-> val])
MapKeep(m, Keep(_)) == SelectSeq(m, LAMBDA e : Keep(e.k))
MapDeleteAll(m, keys) == SelectSeq(m, LAMBDA e : ~ Contains(keys, e.k))

\* ---------------------------------------------------------- HistoryRecord
\* ref = 0: a record built by the reconciler (a value);
\* ref = j: the speculative record object of job j, whose fields are in recs.
NewRecord(type, commitment, ts, txHash, pending, nActions) ==
  [ ref |-> 0, type |-> type, commitment |-> commitment, timestamp |-> ts,
    txHash |-> txHash, state |-> IF pending THEN "Pending" ELSE "Mined",
    failureReason |-> "", nActions |-> nActions, fee |-> 0 ]
WithFee(rec, fee) == [ rec EXCEPT !.fee = fee ]
RefEntry(j) ==
  [ ref |-> j, type |-> "", commitment |-> 0, timestamp |-> 0, txHash |-> 0,
    state |-> "", failureReason |-> "", nActions |-> 0, fee |-> 0 ]
NoRec == RefEntry(0)
HistoryRecordIdx(rec, index) == [ index |-> index, record |-> rec ]

\* --------------------------------------------------------------- the state
VARIABLES
  ledger,               \* the transactions of the pool contract, by slot
  hasSubgraph,          \* this.subgraph !== undefined
  syncIndex,            \* this.syncIndex
  syncAttempts,         \* this.syncAttempts
  queuedTxs,            \* Map job -> HistoryRecord[]   (function job -> Seq(ref))
  sentTxs,              \* Map txHash -> HistoryRecord[] (function hash -> Seq(ref))
  recs,                 \* the speculative record objects, by job
  unparsedMemo,         \* Map index -> DecryptedMemo (mined)
  unparsedPendingMemo,  \* Map index -> DecryptedMemo (pending)
  currentHistory,       \* Map index -> HistoryRecord (function index -> entry)
  failedHistory,        \* HistoryRecord[]
  pendingLocalHistory,  \* HistoryRecord[]
  syncHistoryPromise,   \* "none" or "pending"
  sync,                 \* the sync started by getAllHistory: retry loop position
  conv,                 \* the two convertToHistory calls of the running pass
  callerPc,             \* the callers of getAllHistory
  rb,                   \* the running rollbackHistory call
  cl,                   \* the running cleanHistory call
  jobPc,                \* the job monitor of each job
  dbTx,                 \* TX_STORE: index -> record
  dbFailed,             \* TX_FAILED_STORE (auto-increment keys)
  dbMemo,               \* DECRYPTED_MEMO: index -> memo
  dbPendingMemo,        \* DECRYPTED_PENDING_MEMO: index -> memo
  dbSyncIndex,          \* HISTORY_STATE 'sync_index'
  dbFailIdx,            \* HISTORY_STATE 'fail_indexes'
  calls,                \* the number of calls made so far
  lastOp                \* the operation that made the last step, with its outcome

cacheVars == << syncIndex, syncAttempts, unparsedMemo, unparsedPendingMemo,
                currentHistory, failedHistory, pendingLocalHistory >>
jobVars == << queuedTxs, sentTxs, recs, jobPc >>
dbVars == << dbTx, dbFailed, dbMemo, dbPendingMemo, dbSyncIndex, dbFailIdx >>
procVars == << syncHistoryPromise, sync, conv, callerPc, rb, cl >>
vars == << ledger, hasSubgraph, cacheVars, jobVars, dbVars, procVars, calls, lastOp >>

\* ------------------------------------------------------------ the ledger
\* The transaction the ledger holds at a slot: its kind is ledger[slot].
Kinds == << "deposit", "aggr", "dd", "out", "in", "withdraw" >>
Ledgers == [ Slots -> Range(Kinds) ]
CycleLedger == [ slot \in Slots |-> Kinds[(slot % Len(Kinds)) + 1] ]
KindAt(slot) == ledger[slot]
IndexOf(slot) == slot * OUTPLUSONE
SlotOf(index) == index \div OUTPLUSONE
HashAt(slot) == slot + 1
CommitAt(slot) == slot + 1
TsAt(slot) == 100 + ((slot * 2) % 3)
FeeAt(slot) == 10 + slot

\* DecryptedMemo
Memo(slot, withHash) ==
  [ index  |-> IndexOf(slot),
    txHash |-> IF withHash THEN HashAt(slot) ELSE NoHash,
    acc    |-> KindAt(slot) \in {"deposit", "aggr", "out", "withdraw"},
    nOut   |-> IF KindAt(slot) = "out" THEN 1 ELSE 0,
    nIn    |-> IF KindAt(slot) \in {"in", "dd"} THEN 1 ELSE 0 ]

\* PoolTxDetails of the transaction at an index, as both fetchers return it
Details(index) ==
  LET k == KindAt(SlotOf(index)) IN
  [ index      |-> index,
    poolTxType |-> IF k = "dd" THEN "DirectDepositBatch" ELSE "Regular",
    txType     |-> CASE k = "deposit"  -> "Deposit"
                     [] k = "withdraw" -> "Withdraw"
                     [] k = "dd"       -> "None"
                     [] OTHER          -> "Transfer",
    commitment |-> CommitAt(SlotOf(index)),
    timestamp  |-> TsAt(SlotOf(index)),
    txHash     |-> HashAt(SlotOf(index)),
    nDeposits  |-> IF k = "dd" THEN MaxDeposits ELSE 0,
    feeAmount  |-> FeeAt(SlotOf(index)) ]

MapPut(f, key, val) == [ i \in DOMAIN f \cup {key} |-> IF i = key THEN val ELSE f[i] ]
MapDrop(f, keys) == [ i \in DOMAIN f \ keys |-> f[i] ]
NoMap == [ i \in {} |-> 0 ]
\* the value of 'fail_indexes': absent, or an array of indexes
NoFail == [ present |-> FALSE, idxs |-> << >> ]
FailIdxs(idxs) == [ present |-> TRUE, idxs |-> idxs ]

Op(name, arg) == [ op |-> name, arg |-> arg, aux |-> NoFail, ret |-> << >> ]

\* an action is a call from outside or a step of a call that is running
Call == calls < MaxCalls /\ calls' = calls + 1
Step == UNCHANGED calls

\* the record an entry stands for
Deref(heap, e) == IF e.ref = 0 THEN e ELSE heap[e.ref]
RecOf(e) == Deref(recs, e)

\* ------------------------------------------------ removePendingTxByCommit
HoldsCommit(heap, refs, commitment) ==
  \E i \in 1 .. Len(refs) : heap[refs[i]].commitment = commitment
RemoveByCommit(heap, m, commitment) ==
  [ key \in { x \in DOMAIN m : ~ HoldsCommit(heap, m[x], commitment) } |-> m[key] ]
RECURSIVE RemoveByCommits(_, _, _)
RemoveByCommits(heap, m, commitments) ==
  IF commitments = << >> THEN m
  ELSE RemoveByCommits(heap, RemoveByCommit(heap, m, Head(commitments)), Tail(commitments))

\* ---------------------------------------------------------- getTxesDetails
\* requestedIndexes.filter((aIdx) => !fetchedIndexes.includes(aIdx))
NotFetchedNone(requestedIndexes, fetchedIndexes) == << >>
NotFetchedIndexes(requestedIndexes, fetchedIndexes) ==
  SelectSeq(requestedIndexes, LAMBDA i : ~ Contains(fetchedIndexes, i))

\* subResp: the indexes the subgraph answers, in the order of its answer;
\* rpcOk: the indexes whose transaction the RPC node returns.
getTxesDetails(memos, sub, subResp, rpcOk) ==
  LET requestedIndexes == SeqMap(LAMBDA m : m.index, memos)
      subTxs == IF sub THEN SeqMap(Details, subResp) ELSE << >>
      subIndexes == SeqMap(LAMBDA d : d.index, subTxs)
      fetchedTxHashes == SeqMap(LAMBDA d : d.txHash, subTxs)
      fetchedIndexesByTxHashes ==
        SeqMap(LAMBDA m : m.index,
               SelectSeq(memos, LAMBDA m : /\ m.txHash # NoHash
                                           /\ Contains(fetchedTxHashes, m.txHash)
                                           /\ ~ Contains(subIndexes, m.index)))
      fetchedIndexes1 == removeDuplicates(subIndexes \o fetchedIndexesByTxHashes)
      unparsedMemos == SelectSeq(memos, LAMBDA m : ~ Contains(fetchedIndexes1, m.index))
      asked == SelectSeq(unparsedMemos, LAMBDA m : m.txHash # NoHash)
      resFromRpc == SeqMap(LAMBDA m : [ Details(m.index) EXCEPT !.txHash = m.txHash ],
                           SelectSeq(asked, LAMBDA m : m.index \in rpcOk))
      rpcIndexes == SeqMap(LAMBDA d : d.index, resFromRpc)
      fetchedIndexes == fetchedIndexes1 \o rpcIndexes
  IN [ details    |-> subTxs \o resFromRpc,
       fetched    |-> fetchedIndexes,
       notFetched |-> NotFetchedIndexes(requestedIndexes, fetchedIndexes),
       needResync |-> SeqMap(LAMBDA d : d.index,
                             SelectSeq(resFromRpc,
                                       LAMBDA d : d.poolTxType = "DirectDepositBatch" /\ sub)) ]

\* --------------------------------------------------------- convertToHistory
\* memos.find(aMemo => aMemo.index == index || aMemo.txHash == txHash): position or 0
FindMemo(memos, index, txHash) ==
  IF \E i \in 1 .. Len(memos) : memos[i].index = index \/ memos[i].txHash = txHash
  THEN CHOOSE i \in 1 .. Len(memos) :
         /\ memos[i].index = index \/ memos[i].txHash = txHash
         /\ \A k \in 1 .. i - 1 : ~ (memos[k].index = index \/ memos[k].txHash = txHash)
  ELSE 0

KnownTxType(d) ==
  \/ d.poolTxType = "Regular" /\ d.txType \in {"Deposit", "Transfer", "Withdraw"}
  \/ d.poolTxType = "DirectDepositBatch"

\* HistoryRecord.transferIn(transfers, BigInt(0), ...): the fee of a transfer
\* somebody else initiated is none of the account's
PaidFee(d) == d.feeAmount
IncomingFee(d) == 0

\* the record of a transfer: `if (memo.acc)` it is outgoing, an aggregation
\* when it has no output note; otherwise it is incoming
AlwaysOutgoing(d, memo, pending) ==
  WithFee(NewRecord("TransferOut", d.commitment, d.timestamp, d.txHash, pending, memo.nOut),
          d.feeAmount)
TransferRecord(d, memo, pending) ==
  IF memo.acc
  THEN IF memo.nOut = 0
       THEN WithFee(NewRecord("AggregateNotes", 0, d.timestamp, d.txHash, pending, 0), d.feeAmount)
       ELSE WithFee(NewRecord("TransferOut", d.commitment, d.timestamp, d.txHash, pending, memo.nOut),
                    d.feeAmount)
  ELSE WithFee(NewRecord("TransferIn", 0, d.timestamp, d.txHash, pending, memo.nIn),
               IncomingFee(d))

\* the records of one regular transaction
RegularRecords(d, memo, pending) ==
  CASE d.txType = "Deposit" ->
         << HistoryRecordIdx(WithFee(NewRecord("Deposit", d.commitment, d.timestamp, d.txHash,
                                               pending, 1), d.feeAmount),
                             d.index) >>
    [] d.txType = "Transfer" ->
         << HistoryRecordIdx(TransferRecord(d, memo, pending), memo.index) >>
    [] d.txType = "Withdraw" ->
         << HistoryRecordIdx(WithFee(NewRecord("Withdrawal", d.commitment, d.timestamp, d.txHash,
                                               pending, 1), d.feeAmount),
                             memo.index) >>
    [] OTHER -> << >>

\* the records of a direct-deposit batch: one per deposit, from memo.index on
BatchRecords(d, memo, pending) ==
  [ idx \in 1 .. d.nDeposits |->
      HistoryRecordIdx(WithFee(NewRecord("DirectDeposit", 0, d.timestamp, d.txHash, pending, 1),
                               d.feeAmount),
                       memo.index + (idx - 1)) ]

\* The loop over the fetched details. The callbacks of deposits.forEach are
\* async: their records (late) are pushed at the next await of the loop,
\* or, after the last await, once the loop over notFetched has run.
RECURSIVE ConvertDetails(_, _, _, _)
ConvertDetails(details, memos, pending, acc) ==
  IF details = << >> \/ acc.thrown THEN acc
  ELSE LET d == Head(details)
           at == FindMemo(memos, d.index, d.txHash)
       IN IF at = 0 \/ ~ KnownTxType(d)
          THEN [ acc EXCEPT !.thrown = TRUE ]
          ELSE IF d.poolTxType = "Regular"
          THEN ConvertDetails(Tail(details), memos, pending,
                 [ acc EXCEPT !.records = acc.records \o acc.late \o RegularRecords(d, memos[at], pending),
                              !.late = << >>,
                              !.commits = IF pending THEN acc.commits
                                          ELSE Append(acc.commits, d.commitment) ])
          ELSE ConvertDetails(Tail(details), memos, pending,
                 [ acc EXCEPT !.late = acc.late \o BatchRecords(d, memos[at], pending) ])

\* "we shouldn't panic here: will retry the next time"
PanicOnMissing(acc) == [ acc EXCEPT !.thrown = TRUE ]
RetryNextTime(acc) == acc

\* The loop `for (let aUnprocessedIdx of notFetched)`: the array iterator
\* reads notFetched[i] for i = 0, 1, ... while the body splices notFetched.
SpliceStep(i) == i + 1
RECURSIVE ConvertNotFetched(_, _, _, _)
ConvertNotFetched(i, memos, sent, acc) ==
  IF i > Len(acc.failIdxs) \/ acc.thrown THEN acc
  ELSE LET at == FindMemo(memos, acc.failIdxs[i], NoVal)
       IN IF at = 0 \/ memos[at].txHash = NoHash
          THEN [ acc EXCEPT !.thrown = TRUE ]
          ELSE LET memo == memos[at]
                   records == IF memo.txHash \in DOMAIN sent THEN sent[memo.txHash] ELSE << >>
               IN IF records # << >>
                  THEN ConvertNotFetched(SpliceStep(i), memos, sent,
                         [ acc EXCEPT
                             !.records = acc.records \o
                                [ k \in 1 .. Len(records) |->
                                    HistoryRecordIdx(RefEntry(records[k]), memo.index + (k - 1)) ],
                             !.succIdxs = IF Contains(acc.succIdxs, memo.index) THEN acc.succIdxs
                                          ELSE Append(acc.succIdxs, memo.index),
                             !.failIdxs = SelectSeq(acc.failIdxs, LAMBDA x : x # memo.index) ])
                  ELSE ConvertNotFetched(i + 1, memos, sent, RetryNextTime(acc))

\* convertToHistory(memos, pending) for one answer of the fetchers; the
\* result carries the maps as removePendingTxByCommit leaves them.
convertToHistory(memos, pending, sub, subResp, rpcOk, heap, sent, queued) ==
  LET result == getTxesDetails(memos, sub, subResp, rpcOk)
      first == ConvertDetails(result.details, memos, pending,
                 [ records |-> << >>, late |-> << >>, commits |-> << >>, thrown |-> FALSE ])
      sent1 == RemoveByCommits(heap, sent, first.commits)
      queued1 == RemoveByCommits(heap, queued, first.commits)
      second == ConvertNotFetched(1, memos, sent1,
                  [ records |-> first.records, succIdxs |-> result.fetched,
                    failIdxs |-> result.notFetched, thrown |-> first.thrown ])
  IN [ records    |-> second.records \o first.late,
       succIdxs   |-> second.succIdxs,
       failIdxs   |-> second.failIdxs,
       resyncIdxs |-> result.needResync,
       thrown     |-> second.thrown,
       sentTxs    |-> sent1,
       queuedTxs  |-> queued1 ]

\* ------------------------------------------------------------- syncHistory
IdleConv == [ st |-> "idle", memos |-> << >>, records |-> << >>, succIdxs |-> << >>,
              failIdxs |-> << >>, resyncIdxs |-> << >>, subResp |-> << >>, rpcOk |-> {} ]
\* What a pass was given (memos and the answers of the fetchers) and what
\* it made of them. With conv.last.traced the answers are kept with the
\* conversions and conv.last holds the pass before, within one sync.
NoPass == [ traced |-> FALSE, ran |-> FALSE, given |-> << >>, made |-> << >> ]
Forget(last) == [ NoPass EXCEPT !.traced = last.traced ]
PassOf(last, mined, pend) ==
  [ traced |-> last.traced,
    ran    |-> TRUE,
    given  |-> << mined.memos, mined.subResp, mined.rpcOk, pend.memos, pend.subResp, pend.rpcOk >>,
    made   |-> << mined.records \o pend.records, mined.failIdxs \o pend.failIdxs,
                  mined.resyncIdxs \o pend.resyncIdxs >> ]
FetchConv(memos) == [ IdleConv EXCEPT !.st = "fetch", !.memos = memos ]

\* for (const [index, record] of currentHistory) if (record.state == Pending) delete
DropNothing(heap, history) == history
DropPending(heap, history) ==
  [ i \in { x \in DOMAIN history : Deref(heap, history[x]).state # "Pending" } |-> history[i] ]

\* the loop over historyRecords: cache, TX_STORE and newSyncIndex
CountMined(newSyncIndex, index) == newSyncIndex + 1
LastMined(newSyncIndex, index) == index
RECURSIVE ApplyRecords(_, _, _)
ApplyRecords(heap, records, acc) ==
  IF records = << >> THEN acc
  ELSE LET one == Head(records)
           mined == Deref(heap, one.record).state = "Mined"
       IN ApplyRecords(heap, Tail(records),
            [ history |-> [ i \in DOMAIN acc.history \cup {one.index} |->
                              IF i = one.index THEN one.record ELSE acc.history[i] ],
              db |-> IF mined
                     THEN [ i \in DOMAIN acc.db \cup {one.index} |->
                              IF i = one.index THEN Deref(heap, one.record) ELSE acc.db[i] ]
                     ELSE acc.db,
              newSyncIndex |-> IF mined THEN LastMined(acc.newSyncIndex, one.index)
                               ELSE acc.newSyncIndex ])

\* the locally sent records whose commitment no record of the cache carries
LocalPending(heap, history, sent) ==
  LET commitments == { Deref(heap, history[i]).commitment : i \in DOMAIN history }
      hashes == SortedSeq(DOMAIN sent)
      RECURSIVE Collect(_)
      Collect(hs) ==
        IF hs = << >> THEN << >>
        ELSE SeqMap(RefEntry, SelectSeq(sent[Head(hs)],
                                        LAMBDA r : heap[r].commitment \notin commitments))
             \o Collect(Tail(hs))
  IN Collect(hashes)

\* Array.prototype.sort() without a comparator orders the numbers as strings
\* and sorts the array in place (it runs for the console.warn of the list)
RECURSIVE Digits(_)
Digits(n) == IF n < 10 THEN << n >> ELSE Append(Digits(n \div 10), n % 10)
StringLess(a, b) ==
  \/ \E i \in 1 .. Len(a) : /\ i <= Len(b) /\ a[i] < b[i]
                             /\ \A k \in 1 .. i - 1 : a[k] = b[k]
  \/ Len(a) < Len(b) /\ \A k \in 1 .. Len(a) : a[k] = b[k]
RECURSIVE SortIdxs(_)
SortIdxs(s) ==
  IF s = << >> THEN << >>
  ELSE LET at == CHOOSE i \in 1 .. Len(s) :
                   \A k \in 1 .. Len(s) :
                     /\ ~ StringLess(Digits(s[k]), Digits(s[i]))
                     /\ (s[k] = s[i] => i <= k)
       IN << s[at] >> \o SortIdxs(RemoveAt(s, at))

\* this.syncIndex = Math.max(this.syncIndex, newSyncIndex)
TakeNewSyncIndex(cur, newSyncIndex) == newSyncIndex
MathMax(cur, newSyncIndex) == Max(cur, newSyncIndex)

\* if (!needToResyncIndexes.includes(oneIndex)) this.unparsedMemo.delete(oneIndex)
ForgetResync(needToResyncIndexes, oneIndex) == FALSE
KeepForResync(needToResyncIndexes, oneIndex) == Contains(needToResyncIndexes, oneIndex)

\* the synchronous tail of syncHistory, after both conversions have returned
CommitPass(mined, pend) ==
  LET historyRecords == mined.records \o pend.records
      processedIndexes == mined.succIdxs \o pend.succIdxs
      unprocessedIndexes == SortIdxs(mined.failIdxs \o pend.failIdxs)
      needToResyncIndexes == SortIdxs(mined.resyncIdxs \o pend.resyncIdxs)
      applied == ApplyRecords(recs, historyRecords,
                   [ history |-> DropPending(recs, currentHistory), db |-> dbTx,
                     newSyncIndex |-> syncIndex ])
      done == SelectSeq(processedIndexes, LAMBDA i : ~ KeepForResync(needToResyncIndexes, i))
      newIndex == MathMax(syncIndex, applied.newSyncIndex)
  IN [ currentHistory |-> applied.history,
       dbTx |-> applied.db,
       dbFailIdx |-> FailIdxs(unprocessedIndexes \o needToResyncIndexes),
       unparsedMemo |-> MapDeleteAll(unparsedMemo, done),
       syncIndex |-> newIndex,
       pendingLocalHistory |-> LocalPending(recs, applied.history, sentTxs) ]

\* what the settled promise wakes up
WakeCallers == [ c \in Callers |-> IF callerPc[c] = "waiting" THEN "ready" ELSE callerPc[c] ]
Wake(call) == IF call.pc = "waiting" THEN [ call EXCEPT !.pc = "ready" ] ELSE call

\* syncHistory() is called: with memos to process it takes its snapshot and
\* awaits the conversions; without, it runs to its end at once and the
\* promise of getAllHistory settles. (callers: callerPc with the new caller)
StartPass(callers) ==
  IF Len(unparsedMemo) > 0 \/ Len(unparsedPendingMemo) > 0
  THEN /\ sync' = "pass"
       /\ conv' = [ mined |-> FetchConv(MapValues(unparsedMemo)),
                    pend |-> FetchConv(MapValues(unparsedPendingMemo)),
                    last |-> Forget(conv.last) ]
       /\ syncHistoryPromise' = "pending"
       /\ callerPc' = callers
       /\ UNCHANGED << currentHistory, pendingLocalHistory, rb, cl >>
  ELSE /\ sync' = "idle"
       /\ conv' = [ mined |-> IdleConv, pend |-> IdleConv, last |-> Forget(conv.last) ]
       /\ syncHistoryPromise' = "none"
       /\ currentHistory' = DropPending(recs, currentHistory)
       /\ pendingLocalHistory' = LocalPending(recs, DropPending(recs, currentHistory), sentTxs)
       /\ callerPc' = [ c \in Callers |-> IF callers[c] = "waiting" THEN "ready" ELSE callers[c] ]
       /\ rb' = Wake(rb)
       /\ cl' = Wake(cl)

\* The continuations of the calls that awaited the promise run in the same
\* drain of the microtask queue in which it settles, before anything else.
Quiet == /\ \A c \in Callers : callerPc[c] # "ready"
         /\ rb.pc # "ready" /\ cl.pc # "ready"

\* if (this.syncHistoryPromise == undefined)
MayStartSyncAlways == TRUE
MayStartSync == syncHistoryPromise = "none"

\* getAllHistory(): up to `await this.syncHistoryPromise`
GetAllHistory(c) ==
  /\ callerPc[c] = "idle"
  /\ Quiet
  /\ Call
  /\ IF MayStartSync
     THEN /\ syncAttempts' = 1
          /\ StartPass([ callerPc EXCEPT ![c] = "waiting" ])
          /\ lastOp' = Op("getAllStart", 0)
     ELSE /\ callerPc' = [ callerPc EXCEPT ![c] = "waiting" ]
          /\ lastOp' = Op("getAllJoin", 0)
          /\ UNCHANGED << syncAttempts, currentHistory, pendingLocalHistory,
                          syncHistoryPromise, sync, conv, rb, cl >>
  /\ UNCHANGED << ledger, hasSubgraph, jobVars, dbVars, syncIndex, unparsedMemo,
                  unparsedPendingMemo, failedHistory >>

\* 1 when the pass was given what the pass before it, on record, was given
Repeated(last, mined, pend) ==
  IF last.ran /\ PassOf(last, mined, pend).given = last.given THEN 1 ELSE 0

\* while (this.syncAttempts < MAX_SYNC_ATTEMPTS)
RetryAlways(attempts) == TRUE
MayRetry(attempts) == attempts < MAX_SYNC_ATTEMPTS

\* The last conversion of the pass has returned: Promise.all settles and the
\* rest of syncHistory runs, then the retry loop of getAllHistory either ends
\* (the promise settles) or calls syncHistory again, which takes its snapshot.
EndPass(mined, pend) ==
  \E c \in { CommitPass(mined, pend) } :
  LET result == Len(c.unparsedMemo) = 0
      finished == result \/ ~ MayRetry(syncAttempts)
  IN /\ currentHistory' = c.currentHistory
     /\ dbTx' = c.dbTx
     /\ dbFailIdx' = c.dbFailIdx
     /\ unparsedMemo' = c.unparsedMemo
     /\ syncIndex' = c.syncIndex
     /\ dbSyncIndex' = c.syncIndex
     /\ pendingLocalHistory' = c.pendingLocalHistory
     /\ IF finished
        THEN /\ sync' = "idle"
             /\ conv' = [ mined |-> IdleConv, pend |-> IdleConv, last |-> Forget(conv.last) ]
             /\ syncHistoryPromise' = "none"
             /\ callerPc' = WakeCallers
             /\ rb' = Wake(rb)
             /\ cl' = Wake(cl)
             /\ lastOp' = [ Op("commit", Repeated(conv.last, mined, pend))
                             EXCEPT !.ret = PassOf(conv.last, mined, pend) ]
             /\ UNCHANGED syncAttempts
        ELSE /\ sync' = "pass"
             /\ conv' = [ mined |-> FetchConv(MapValues(c.unparsedMemo)),
                          pend |-> FetchConv(MapValues(unparsedPendingMemo)),
                          last |-> IF conv.last.traced THEN PassOf(conv.last, mined, pend)
                                   ELSE conv.last ]
             /\ syncAttempts' = syncAttempts + 1
             /\ lastOp' = [ Op("retry", Repeated(conv.last, mined, pend))
                             EXCEPT !.ret = PassOf(conv.last, mined, pend) ]
             /\ UNCHANGED << syncHistoryPromise, callerPc, rb, cl >>
     /\ UNCHANGED << unparsedPendingMemo, failedHistory, dbFailed, dbMemo, dbPendingMemo >>

\* await Promise.all([minedHistoryPromise, pendingHistoryPromise]) goes on
\* when both conversions have returned and rejects when one has thrown
AllSettled(thrown, state, otherSt) == ~ thrown /\ otherSt \in { "done", "thrown" }
AllReturned(thrown, state, otherSt) == ~ thrown /\ state = "pass" /\ otherSt = "done"

\* one convertToHistory call of the pass gets the answers of the fetchers
Convert(which, other, pending) ==
  /\ conv[which].st = "fetch"
  /\ Quiet
  /\ Step
  /\ LET memos == conv[which].memos
         requested == { memos[i].index : i \in 1 .. Len(memos) }
     IN \E answered \in SUBSET requested :
        \E subResp \in (IF hasSubgraph THEN Orderings(answered) ELSE { << >> }) :
        \E rpcOk \in SUBSET (requested \ Range(subResp)) :
          /\ hasSubgraph \/ answered = {}
          /\ \E r \in { convertToHistory(memos, pending, hasSubgraph, subResp, rpcOk,
                                          recs, sentTxs, queuedTxs) } :
             LET done == [ st |-> IF r.thrown THEN "thrown" ELSE "done",
                           memos |-> memos, records |-> r.records,
                           succIdxs |-> r.succIdxs, failIdxs |-> r.failIdxs,
                           resyncIdxs |-> r.resyncIdxs,
                           subResp |-> IF conv.last.traced THEN subResp ELSE << >>,
                           rpcOk |-> IF conv.last.traced THEN rpcOk ELSE {} ]
             IN /\ sentTxs' = r.sentTxs
                /\ queuedTxs' = r.queuedTxs
                /\ IF AllReturned(r.thrown, sync, conv[other].st)
                   THEN IF pending THEN EndPass(conv[other], done) ELSE EndPass(done, conv[other])
                   ELSE /\ conv' = [ conv EXCEPT ![which] = done ]
                        \* a rejected conversion rejects syncHistory inside the async
                        \* executor: the promise of getAllHistory never settles
                        /\ sync' = IF r.thrown /\ sync = "pass" THEN "hung" ELSE sync
                        /\ lastOp' = Op(IF r.thrown THEN "convertThrown" ELSE "convert", 0)
                        /\ UNCHANGED << cacheVars, dbVars, syncHistoryPromise, callerPc, rb, cl >>
  /\ UNCHANGED << ledger, hasSubgraph, recs, jobPc >>

ConvertMined == Convert("mined", "pend", FALSE)
ConvertPending == Convert("pend", "mined", TRUE)

\* the view getAllHistory returns (before its sort)
View == [ i \in 1 .. Len(SortedSeq(DOMAIN currentHistory)) |->
            currentHistory[SortedSeq(DOMAIN currentHistory)[i]] ]
        \o failedHistory \o pendingLocalHistory

\* .sort((rec1, rec2) => 0 - (rec1.timestamp > rec2.timestamp ? -1 : 1))
CompareFlipped(rec1, rec2) == IF rec1.timestamp > rec2.timestamp THEN -1 ELSE 1
Compare(rec1, rec2) == 0 - (IF rec1.timestamp > rec2.timestamp THEN -1 ELSE 1)

\* rec1 has to come after rec2: the comparator says so in both directions.
\* (For equal timestamps it answers -1 both ways, so the order of the two is
\* whatever the sort algorithm of the engine makes of it.)
SortsAfter(rec1, rec2) == Compare(rec1, rec2) > 0 /\ Compare(rec2, rec1) < 0

\* the arrays Array.prototype.sort can leave for the array s
RECURSIVE SortResults(_, _)
SortResults(heap, s) ==
  IF s = << >> THEN { << >> }
  ELSE UNION { { << s[i] >> \o t : t \in SortResults(heap, RemoveAt(s, i)) } :
               i \in { k \in 1 .. Len(s) :
                         \A m \in 1 .. Len(s) :
                           ~ SortsAfter(Deref(heap, s[k]), Deref(heap, s[m])) } }

\* getAllHistory(): after the await
Return(c) ==
  /\ callerPc[c] = "ready"
  /\ Step
  /\ callerPc' = [ callerPc EXCEPT ![c] = "idle" ]
  /\ \E sorted \in SortResults(recs, View) : lastOp' = [ Op("return", 0) EXCEPT !.ret = sorted ]
  /\ UNCHANGED << ledger, hasSubgraph, cacheVars, jobVars, dbVars, syncHistoryPromise, sync, conv, rb, cl >>

\* --------------------------------------------------------- saveDecryptedMemo
\* a terminal failure of a job means its transaction never reaches the ledger
FailedStates == { "failing", "failed", "reverting", "reverted" }
SlotFailed(slot) == \E j \in Jobs : jobPc[j].state \in FailedStates /\ jobPc[j].slot = slot

saveDecryptedMemo(memo, pending) ==
  /\ LET memoIndex == MemoKey(memo.index)
     IN IF pending
        THEN /\ unparsedPendingMemo' = MapSet(unparsedPendingMemo, memoIndex, memo)
             /\ dbPendingMemo' = MapPut(dbPendingMemo, memoIndex, memo)
             /\ UNCHANGED << unparsedMemo, dbMemo >>
        ELSE /\ unparsedMemo' = IF memo.index > syncIndex
                                THEN MapSet(unparsedMemo, memoIndex, memo)
                                ELSE unparsedMemo
             /\ dbMemo' = MapPut(dbMemo, memoIndex, memo)
             /\ UNCHANGED << unparsedPendingMemo, dbPendingMemo >>
  /\ lastOp' = Op("save", 0)
  /\ UNCHANGED << ledger, hasSubgraph, jobVars, procVars, syncIndex, syncAttempts, currentHistory,
                  failedHistory, pendingLocalHistory, dbTx, dbFailed, dbSyncIndex, dbFailIdx >>

\* the state sync of the client saves the memos it decrypts; it is also the
\* caller of rollbackHistory and cleanHistory, so it saves none meanwhile
SaveMemo(slot, withHash, pending) ==
  /\ rb.pc = "idle" /\ cl.pc = "idle"
  /\ Quiet
  /\ Call
  /\ pending \/ ~ SlotFailed(slot)
  /\ saveDecryptedMemo(Memo(slot, withHash), pending)

\* ------------------------------------------------------------ job tracking
\* monitor: jobsMonitors holds a promise for the job; loops: the calls of
\* jobMonitoringWorker that are running for it; ended: those that have
\* returned and whose finally() callback has not run yet
NoJob == [ state |-> "none", lastTxHash |-> 0, slot |-> 0, viaSent |-> FALSE, oldTxHash |-> 0,
           txHash |-> 0, monitor |-> FALSE, loops |-> 0, ended |-> 0, wait |-> "none",
           waitRet |-> 0 ]
SubmitTs(j) == 100 + (j % 3)
StaleHash(j) == 50 + j
JobHashes(j) == { HashAt(jobPc[j].slot), StaleHash(j) }
Hashes == { HashAt(slot) : slot \in Slots } \cup { StaleHash(j) : j \in Jobs }
SubmitKinds == { "deposit", "aggr", "out", "withdraw", "in" }
SpeculativeType(kind) ==
  CASE kind = "deposit" -> "Deposit"
    [] kind = "aggr" -> "AggregateNotes"
    [] kind = "out" -> "TransferOut"
    [] kind = "withdraw" -> "Withdrawal"
    [] OTHER -> "TransferIn"
\* '0x...' hashes are the positive numbers
StartsWith0x(h) == h > 0

\* keepQueuedTransactions([rec], job), as every sender of ZkBobClient calls it
keepQueuedTransactions(j, slot) ==
  /\ jobPc[j].state = "none"
  /\ Quiet
  /\ Call
  /\ KindAt(slot) \in SubmitKinds
  /\ \A k \in Jobs : jobPc[k].state # "none" => jobPc[k].slot # slot
  /\ IndexOf(slot) \notin DOMAIN dbMemo /\ IndexOf(slot) \notin DOMAIN dbPendingMemo
  /\ recs' = [ recs EXCEPT ![j] =
                 [ NewRecord(SpeculativeType(KindAt(slot)), CommitAt(slot), SubmitTs(j), 0, TRUE,
                             IF KindAt(slot) = "aggr" THEN 0 ELSE 1)
                   EXCEPT !.ref = j, !.fee = IF KindAt(slot) = "in" THEN 0 ELSE FeeAt(slot) ] ]
  /\ queuedTxs' = MapPut(queuedTxs, j, << j >>)
  /\ jobPc' = [ jobPc EXCEPT ![j] = [ jobPc[j] EXCEPT !.state = "waiting", !.slot = slot ] ]
  /\ lastOp' = Op("keepQueued", 0)
  /\ UNCHANGED << ledger, hasSubgraph, cacheVars, dbVars, procVars, sentTxs >>

\* setTxHashForQueuedTransactions(job, txHash) on the maps
SetSentOnly(heap, queued, sent, j, txHash) ==
  IF j \in DOMAIN queued
  THEN [ recs |-> heap, sentTxs |-> MapPut(sent, txHash, queued[j]) ]
  ELSE [ recs |-> heap, sentTxs |-> sent ]
SetTxHash(heap, queued, sent, j, txHash) ==
  IF j \in DOMAIN queued
  THEN [ recs |-> [ r \in DOMAIN heap |->
                      IF Contains(queued[j], r) THEN [ heap[r] EXCEPT !.txHash = txHash ]
                      ELSE heap[r] ],
         sentTxs |-> MapPut(sent, txHash, queued[j]) ]
  ELSE [ recs |-> heap, sentTxs |-> sent ]

\* setQueuedTransactionsCompleted(job, txHash): the records are not removed,
\* their hash is updated
CompletedDropsHash(heap, queued, sent, j, txHash) ==
  [ recs |-> heap, sentTxs |-> MapDrop(sent, {txHash}) ]
setQueuedTransactionsCompleted(heap, queued, sent, j, txHash) ==
  SetTxHash(heap, queued, sent, j, txHash)

\* a poll of jobMonitoringWorker answers 'sent' (or 'completed') with a hash
PollSent(j, h, final) ==
  /\ jobPc[j].state \in { "waiting", "sent" }
  /\ Quiet
  /\ Call
  /\ h \in JobHashes(j)
  /\ final \/ h # jobPc[j].lastTxHash
  /\ ~ final \/ jobPc[j].state = "sent"
  /\ LET r == IF final THEN setQueuedTransactionsCompleted(recs, queuedTxs, sentTxs, j, h)
              ELSE SetTxHash(recs, queuedTxs, sentTxs, j, h)
     IN /\ recs' = r.recs
        /\ sentTxs' = r.sentTxs
  /\ jobPc' = [ jobPc EXCEPT ![j].state = IF final THEN "completed" ELSE "sent",
                             ![j].lastTxHash = h ]
  /\ lastOp' = Op(IF final THEN "completed" ELSE "hashAssigned", 0)
  /\ UNCHANGED << ledger, hasSubgraph, cacheVars, dbVars, procVars, queuedTxs >>

\* what jobMonitoringWorker makes of an answer 'waiting' or 'sent': the hash
\* is handed to the history when the answer is 'sent' and the hash is not
\* the last one seen
OnPollAlways(heap, queued, sent, j, lastTxHash, state, txHash) ==
  SetTxHash(heap, queued, sent, j, txHash)
OnPoll(heap, queued, sent, j, lastTxHash, state, txHash) ==
  IF state = "sent" /\ StartsWith0x(txHash) /\ lastTxHash # txHash
  THEN SetTxHash(heap, queued, sent, j, txHash)
  ELSE [ recs |-> heap, sentTxs |-> sent ]

\* a poll answers 'waiting' (the job is queued, or was sent and is queued
\* again to be resent), or 'sent' with the hash of the poll before
PollUnchanged(j, state) ==
  /\ jobPc[j].state \in { "waiting", "sent" }
  /\ Quiet
  /\ Call
  /\ state \in { "waiting", "sent" }
  /\ state = "sent" => StartsWith0x(jobPc[j].lastTxHash)
  /\ LET r == OnPoll(recs, queuedTxs, sentTxs, j, jobPc[j].lastTxHash, state,
                     IF state = "sent" THEN jobPc[j].lastTxHash ELSE 0)
     IN /\ recs' = r.recs
        /\ sentTxs' = r.sentTxs
  /\ jobPc' = [ jobPc EXCEPT ![j].state = state ]
  /\ lastOp' = Op(IF state = "sent" THEN "pollSame" ELSE "pollWaiting", j)
  /\ UNCHANGED << ledger, hasSubgraph, cacheVars, dbVars, procVars, queuedTxs >>

\* removePendingTxByJob(job)
removePendingTxByJob(heap, queued, sent, j) ==
  IF j \in DOMAIN queued
  THEN [ queuedTxs |-> MapDrop(queued, {j}),
         sentTxs |-> MapDrop(sent, { heap[queued[j][i]].txHash : i \in 1 .. Len(queued[j]) }
                                   \cap { h \in DOMAIN sent : StartsWith0x(h) }) ]
  ELSE [ queuedTxs |-> queued, sentTxs |-> sent ]

\* removePendingTxByTxHash(txHash)
removePendingTxByTxHash(heap, queued, sent, txHash) ==
  [ sentTxs |-> MapDrop(sent, {txHash}),
    queuedTxs |-> MapDrop(queued, { k \in DOMAIN queued :
                                      \E i \in 1 .. Len(queued[k]) : heap[queued[k][i]].txHash = txHash }) ]

\* removeHistoryPendingRecordsByTxHash(txHash): `deleted ||= delete(index)`
\* stops deleting after the first hit (the cache is walked in key order here)
removeHistoryPendingRecordsByTxHash(heap, history, txHash) ==
  LET hits == { i \in DOMAIN history : /\ Deref(heap, history[i]).state = "Pending"
                                       /\ Deref(heap, history[i]).txHash = txHash }
  IN IF hits = {} THEN history
     ELSE MapDrop(history, { CHOOSE i \in hits : \A k \in hits : i <= k })

\* marks the records of a list as failed and appends them to the failed set
MarkFailedAnew(heap, refs, state, reason, setHash, txHash) ==
  [ r \in DOMAIN heap |->
      IF Contains(refs, r)
      THEN [ heap[r] EXCEPT !.state = state, !.failureReason = reason, !.commitment = 0,
                            !.txHash = IF setHash THEN txHash ELSE @ ]
      ELSE heap[r] ]
MarkFailed(heap, refs, state, reason, setHash, txHash) ==
  [ r \in DOMAIN heap |->
      IF Contains(refs, r)
      THEN [ heap[r] EXCEPT !.state = state, !.failureReason = reason,
                            !.txHash = IF setHash THEN txHash ELSE @ ]
      ELSE heap[r] ]

\* setQueuedTransactionFailedByRelayer(job, error) up to `await this.db.put`
FailedByRelayer(j) ==
  /\ jobPc[j].state = "waiting"
  /\ Quiet
  /\ Call
  /\ IF j \in DOMAIN queuedTxs
     THEN /\ recs' = MarkFailed(recs, queuedTxs[j], "RejectedByRelayer", "relayer", FALSE, 0)
          /\ failedHistory' = failedHistory \o SeqMap(RefEntry, queuedTxs[j])
          /\ dbFailed' = dbFailed \o SeqMap(LAMBDA r : [ recs'[r] EXCEPT !.ref = 0 ], queuedTxs[j])
          /\ jobPc' = [ jobPc EXCEPT ![j].state = "failing" ]
     ELSE /\ jobPc' = [ jobPc EXCEPT ![j].state = "failed" ]
          /\ UNCHANGED << recs, failedHistory, dbFailed >>
  /\ lastOp' = Op("failedByRelayer", 0)
  /\ UNCHANGED << ledger, hasSubgraph, procVars, queuedTxs, sentTxs, syncIndex, syncAttempts, unparsedMemo,
                  unparsedPendingMemo, currentHistory, pendingLocalHistory, dbTx, dbMemo,
                  dbPendingMemo, dbSyncIndex, dbFailIdx >>

\* setQueuedTransactionFailedByRelayer after the await: removePendingTxByJob
FailedByRelayerEnd(j) ==
  /\ jobPc[j].state = "failing"
  /\ Quiet
  /\ Step
  /\ LET r == removePendingTxByJob(recs, queuedTxs, sentTxs, j)
     IN /\ queuedTxs' = r.queuedTxs
        /\ sentTxs' = r.sentTxs
  /\ jobPc' = [ jobPc EXCEPT ![j].state = "failed" ]
  /\ lastOp' = Op("failedByRelayerEnd", 0)
  /\ UNCHANGED << ledger, hasSubgraph, cacheVars, dbVars, procVars, recs >>

\* setSentTransactionFailedByPool(job, txHash, error) up to `await this.db.put`
FailedByPool(j, h) ==
  /\ jobPc[j].state = "sent"
  /\ Quiet
  /\ Call
  /\ h \in JobHashes(j)
  /\ IF h \in DOMAIN sentTxs
     THEN /\ recs' = MarkFailed(recs, sentTxs[h], "RejectedByPool", "pool", FALSE, 0)
          /\ failedHistory' = failedHistory \o SeqMap(RefEntry, sentTxs[h])
          /\ dbFailed' = dbFailed \o SeqMap(LAMBDA r : [ recs'[r] EXCEPT !.ref = 0 ], sentTxs[h])
          /\ jobPc' = [ jobPc EXCEPT ![j].state = "reverting", ![j].viaSent = TRUE,
                                     ![j].txHash = h ]
     ELSE IF j \in DOMAIN queuedTxs
     THEN /\ recs' = MarkFailed(recs, queuedTxs[j], "RejectedByPool", "pool", TRUE, h)
          /\ failedHistory' = failedHistory \o SeqMap(RefEntry, queuedTxs[j])
          /\ dbFailed' = dbFailed \o SeqMap(LAMBDA r : [ recs'[r] EXCEPT !.ref = 0 ], queuedTxs[j])
          /\ jobPc' = [ jobPc EXCEPT ![j].state = "reverting", ![j].viaSent = FALSE,
                                     ![j].txHash = h,
                                     ![j].oldTxHash =
                                        LET old == SelectSeq(queuedTxs[j],
                                                             LAMBDA r : StartsWith0x(recs[r].txHash))
                                        IN IF old = << >> THEN 0 ELSE recs[Head(old)].txHash ]
     ELSE /\ jobPc' = [ jobPc EXCEPT ![j].state = "reverted", ![j].txHash = h ]
          /\ UNCHANGED << recs, failedHistory, dbFailed >>
  /\ lastOp' = Op("failedByPool", 0)
  /\ UNCHANGED << ledger, hasSubgraph, procVars, queuedTxs, sentTxs, syncIndex, syncAttempts, unparsedMemo,
                  unparsedPendingMemo, currentHistory, pendingLocalHistory, dbTx, dbMemo,
                  dbPendingMemo, dbSyncIndex, dbFailIdx >>

\* setSentTransactionFailedByPool after the await: the bookkeeping is dropped
FailedByPoolEnd(j) ==
  /\ jobPc[j].state = "reverting"
  /\ Quiet
  /\ Step
  /\ LET byJob == removePendingTxByJob(recs, queuedTxs, sentTxs, j)
         byHash == removePendingTxByTxHash(recs, byJob.queuedTxs, byJob.sentTxs, jobPc[j].txHash)
     IN IF jobPc[j].viaSent
        THEN /\ queuedTxs' = byHash.queuedTxs
             /\ sentTxs' = byHash.sentTxs
             /\ currentHistory' = removeHistoryPendingRecordsByTxHash(recs, currentHistory,
                                                                      jobPc[j].txHash)
        ELSE /\ queuedTxs' = byJob.queuedTxs
             /\ sentTxs' = byJob.sentTxs
             /\ currentHistory' = IF StartsWith0x(jobPc[j].oldTxHash)
                                  THEN removeHistoryPendingRecordsByTxHash(recs, currentHistory,
                                                                           jobPc[j].oldTxHash)
                                  ELSE currentHistory
  /\ jobPc' = [ jobPc EXCEPT ![j].state = "reverted" ]
  /\ lastOp' = Op("failedByPoolEnd", 0)
  /\ UNCHANGED << ledger, hasSubgraph, dbVars, procVars, recs, syncIndex, syncAttempts, unparsedMemo,
                  unparsedPendingMemo, failedHistory, pendingLocalHistory >>

\* A monitor started anew for a job whose monitor has ended (waitJobTxHash
\* calls startJobMonitoring, and an ended monitor is no longer in
\* jobsMonitors) polls the terminal state of the job again and makes the
\* same call. The relayer's answer can arrive while the first call still
\* awaits its db.put; the second call then ends as the first one does.
RepollFailed(j) ==
  /\ jobPc[j].state \in { "failing", "failed" }
  /\ Quiet
  /\ Call
  /\ IF j \in DOMAIN queuedTxs
     THEN /\ recs' = MarkFailed(recs, queuedTxs[j], "RejectedByRelayer", "relayer", FALSE, 0)
          /\ failedHistory' = failedHistory \o SeqMap(RefEntry, queuedTxs[j])
          /\ dbFailed' = dbFailed \o SeqMap(LAMBDA r : [ recs'[r] EXCEPT !.ref = 0 ], queuedTxs[j])
     ELSE UNCHANGED << recs, failedHistory, dbFailed >>
  /\ lastOp' = Op("repoll", j)
  /\ UNCHANGED << ledger, hasSubgraph, procVars, queuedTxs, sentTxs, jobPc, syncIndex, syncAttempts,
                  unparsedMemo, unparsedPendingMemo, currentHistory, pendingLocalHistory, dbTx,
                  dbMemo, dbPendingMemo, dbSyncIndex, dbFailIdx >>

\* the same for a reverted job, once the first call has returned: the call
\* finds the records neither under the hash nor under the job
RepollReverted(j) ==
  /\ jobPc[j].state = "reverted"
  /\ Quiet
  /\ Call
  /\ LET h == jobPc[j].txHash
         found == IF h \in DOMAIN sentTxs THEN sentTxs[h]
                  ELSE IF j \in DOMAIN queuedTxs THEN queuedTxs[j] ELSE << >>
         marked == MarkFailed(recs, found, "RejectedByPool", "pool", h \notin DOMAIN sentTxs, h)
         byJob == removePendingTxByJob(marked, queuedTxs, sentTxs, j)
         byHash == removePendingTxByTxHash(marked, byJob.queuedTxs, byJob.sentTxs, h)
     IN IF found = << >>
        THEN UNCHANGED << recs, failedHistory, dbFailed, queuedTxs, sentTxs, currentHistory >>
        ELSE /\ recs' = marked
             /\ failedHistory' = failedHistory \o SeqMap(RefEntry, found)
             /\ dbFailed' = dbFailed \o SeqMap(LAMBDA r : [ recs'[r] EXCEPT !.ref = 0 ], found)
             /\ queuedTxs' = IF h \in DOMAIN sentTxs THEN byHash.queuedTxs ELSE byJob.queuedTxs
             /\ sentTxs' = IF h \in DOMAIN sentTxs THEN byHash.sentTxs ELSE byJob.sentTxs
             /\ currentHistory' = removeHistoryPendingRecordsByTxHash(recs, currentHistory, h)
  /\ lastOp' = Op("repoll", j)
  /\ UNCHANGED << ledger, hasSubgraph, procVars, jobPc, syncIndex, syncAttempts, unparsedMemo,
                  unparsedPendingMemo, pendingLocalHistory, dbTx, dbMemo, dbPendingMemo,
                  dbSyncIndex, dbFailIdx >>

\* the same for a completed job: setQueuedTransactionsCompleted once more
RepollCompleted(j) ==
  /\ jobPc[j].state = "completed"
  /\ Quiet
  /\ Call
  /\ LET r == setQueuedTransactionsCompleted(recs, queuedTxs, sentTxs, j, jobPc[j].lastTxHash)
     IN /\ recs' = r.recs
        /\ sentTxs' = r.sentTxs
  /\ lastOp' = Op("repoll", j)
  /\ UNCHANGED << ledger, hasSubgraph, cacheVars, dbVars, procVars, queuedTxs, jobPc >>

\* ------------------------------------------------------ startJobMonitoring
\* if (existingMonitor === undefined)
MonitorAbsentAlways(job) == TRUE
MonitorAbsent(job) == ~ job.monitor

\* startJobMonitoring(job), as the senders of ZkBobClient and waitJobTxHash
\* call it: no await between the get and the set of jobsMonitors
startJobMonitoring(j) ==
  /\ Quiet
  /\ Call
  /\ IF MonitorAbsent(jobPc[j])
     THEN /\ jobPc' = [ jobPc EXCEPT ![j].monitor = TRUE, ![j].loops = @ + 1 ]
          /\ lastOp' = [ Op("startJobMonitoring", j) EXCEPT !.ret = << "new" >> ]
     ELSE /\ lastOp' = [ Op("startJobMonitoring", j) EXCEPT !.ret = << "existing" >> ]
          /\ UNCHANGED jobPc
  /\ UNCHANGED << ledger, hasSubgraph, cacheVars, dbVars, procVars, queuedTxs, sentTxs, recs >>

\* a running jobMonitoringWorker polls the job
Polling(j) == jobPc[j].loops > 0

\* jobMonitoringWorker returns (the job is in a terminal state, or the issues
\* threshold is reached) or throws (the job is not found)
MonitorReturns(j) ==
  /\ Polling(j)
  /\ Quiet
  /\ Step
  /\ jobPc' = [ jobPc EXCEPT ![j].loops = @ - 1, ![j].ended = @ + 1 ]
  /\ lastOp' = Op("monitorReturns", j)
  /\ UNCHANGED << ledger, hasSubgraph, cacheVars, dbVars, procVars, queuedTxs, sentTxs, recs >>

\* .finally(() => { this.jobsMonitors.delete(job.hash()) })
MonitorFinally(j) ==
  /\ jobPc[j].ended > 0
  /\ Quiet
  /\ Step
  /\ jobPc' = [ jobPc EXCEPT ![j].ended = @ - 1, ![j].monitor = FALSE ]
  /\ lastOp' = Op("monitorFinally", j)
  /\ UNCHANGED << ledger, hasSubgraph, cacheVars, dbVars, procVars, queuedTxs, sentTxs, recs >>

\* ------------------------------------------------------------ waitJobTxHash
\* wait: where a caller of waitJobTxHash(job) is ("none": no caller;
\* "polling": in its loop; else how the call ended); waitRet: the hash returned.
\* monitoredJobs.get(job.hash()): the answer of the last poll of the job
Observed(job) ==
  CASE job.state \in { "failing", "failed" } -> "failed"
    [] job.state \in { "reverting", "reverted" } -> "reverted"
    [] job.state \in { "sent", "completed" } -> job.state
    [] OTHER -> "waiting"
ObservedHash(job) == IF Observed(job) = "reverted" THEN job.txHash ELSE job.lastTxHash

\* one turn of the loop of waitJobTxHash
WaitOutcomeEager(job) ==
  [ wait |-> "returned", waitRet |-> IF StartsWith0x(ObservedHash(job)) THEN ObservedHash(job) ELSE 0 ]
WaitOutcome(job) ==
  CASE Observed(job) = "failed" -> [ wait |-> "RelayerJobError", waitRet |-> 0 ]
    [] Observed(job) = "sent" ->
         [ wait |-> "returned",
           waitRet |-> IF StartsWith0x(ObservedHash(job)) THEN ObservedHash(job) ELSE 0 ]
    [] Observed(job) = "reverted" -> [ wait |-> "PoolJobError", waitRet |-> 0 ]
    [] Observed(job) = "completed" ->
         IF StartsWith0x(ObservedHash(job))
         THEN [ wait |-> "returned", waitRet |-> ObservedHash(job) ]
         ELSE [ wait |-> "InternalError", waitRet |-> 0 ]
    [] OTHER -> [ wait |-> "polling", waitRet |-> 0 ]

\* waitJobTxHash(job) is called: startJobMonitoring(job), then the first
\* turn of the loop
waitJobTxHash(j) ==
  /\ jobPc[j].wait = "none"
  /\ Quiet
  /\ Call
  /\ jobPc' = [ jobPc EXCEPT
                  ![j].monitor = TRUE,
                  ![j].loops = IF MonitorAbsent(jobPc[j]) THEN @ + 1 ELSE @,
                  ![j].wait = WaitOutcome(jobPc[j]).wait,
                  ![j].waitRet = WaitOutcome(jobPc[j]).waitRet ]
  /\ lastOp' = Op("waitJobTxHash", j)
  /\ UNCHANGED << ledger, hasSubgraph, cacheVars, dbVars, procVars, queuedTxs, sentTxs, recs >>

\* a later turn of the loop, CHECK_PERIOD_MS after the one before: it ends
\* the call or leaves everything as it is
WaitTick(j) ==
  /\ jobPc[j].wait = "polling"
  /\ WaitOutcome(jobPc[j]).wait # "polling"
  /\ Quiet
  /\ Step
  /\ jobPc' = [ jobPc EXCEPT ![j].wait = WaitOutcome(jobPc[j]).wait,
                             ![j].waitRet = WaitOutcome(jobPc[j]).waitRet ]
  /\ lastOp' = Op("waitTick", j)
  /\ UNCHANGED << ledger, hasSubgraph, cacheVars, dbVars, procVars, queuedTxs, sentTxs, recs >>

\* ---------------------------------------------------------- rollbackHistory
IdleCall == [ pc |-> "idle", index |-> 0, newSync |-> -1, read |-> NoFail, before |-> NoFail ]
MaxKeyBelow(keys, bound) ==
  IF { k \in keys : k < bound } = {} THEN -1
  ELSE CHOOSE k \in keys : k < bound /\ \A x \in keys : x < bound => x <= k

\* key >= rollbackIndex, and IDBKeyRange.lowerBound(rollbackIndex)
Above(key, rollbackIndex) == key > rollbackIndex
AtOrAbove(key, rollbackIndex) == key >= rollbackIndex

\* forEach((_value, key) => { if (key >= rollbackIndex) delete(key) }) on a
\* cache, db.delete(TABLE, IDBKeyRange.lowerBound(rollbackIndex)) on a table
DropAll(f, rollbackIndex) == NoMap
DropFrom(f, rollbackIndex) == MapDrop(f, { k \in DOMAIN f : AtOrAbove(k, rollbackIndex) })

\* the synchronous part after the wait: the caches are cut and the first
\* delete is issued
RollbackCut(rollbackIndex) ==
  /\ currentHistory' = DropFrom(currentHistory, rollbackIndex)
  /\ unparsedMemo' = MapKeep(unparsedMemo, LAMBDA k : ~ AtOrAbove(k, rollbackIndex))
  /\ unparsedPendingMemo' = MapKeep(unparsedPendingMemo, LAMBDA k : ~ AtOrAbove(k, rollbackIndex))
  /\ dbTx' = DropFrom(dbTx, rollbackIndex)
  /\ rb' = [ pc |-> "memo", index |-> rollbackIndex,
             newSync |-> MaxKeyBelow(MapKeys(unparsedMemo), rollbackIndex), read |-> NoFail,
             before |-> dbFailIdx ]
  /\ UNCHANGED << ledger, hasSubgraph, jobVars, syncHistoryPromise, sync, conv, callerPc, cl, syncIndex,
                  syncAttempts, failedHistory, pendingLocalHistory, dbFailed, dbMemo,
                  dbPendingMemo, dbSyncIndex, dbFailIdx >>

\* if (this.syncHistoryPromise) await this.syncHistoryPromise
MustWait == syncHistoryPromise # "none"

rollbackHistory(rollbackIndex) ==
  /\ rb.pc = "idle" /\ cl.pc = "idle"
  /\ Quiet
  /\ Call
  /\ IF MustWait
     THEN /\ rb' = [ IdleCall EXCEPT !.pc = "waiting", !.index = rollbackIndex ]
          /\ UNCHANGED << ledger, hasSubgraph, cacheVars, jobVars, dbVars, syncHistoryPromise, sync, conv,
                          callerPc, cl >>
     ELSE RollbackCut(rollbackIndex)
  /\ lastOp' = Op("rollbackCall", rollbackIndex)

RollbackResume ==
  /\ rb.pc = "ready"
  /\ Step
  /\ RollbackCut(rb.index)
  /\ lastOp' = Op("rollbackResume", rb.index)

\* await db.delete(DECRYPTED_MEMO_TABLE, lowerBound(rollbackIndex))
RollbackMemo ==
  /\ rb.pc = "memo"
  /\ Quiet
  /\ Step
  /\ dbMemo' = DropFrom(dbMemo, rb.index)
  /\ rb' = [ rb EXCEPT !.pc = "pending" ]
  /\ lastOp' = Op("rollbackStep", rb.index)
  /\ UNCHANGED << ledger, hasSubgraph, cacheVars, jobVars, syncHistoryPromise, sync, conv, callerPc, cl,
                  dbTx, dbFailed, dbPendingMemo, dbSyncIndex, dbFailIdx >>

\* await db.delete(DECRYPTED_PENDING_MEMO_TABLE, ...); the NATIVE_TX table is not modelled
RollbackPending ==
  /\ rb.pc = "pending"
  /\ Quiet
  /\ Step
  /\ dbPendingMemo' = DropFrom(dbPendingMemo, rb.index)
  /\ rb' = [ rb EXCEPT !.pc = "index" ]
  /\ lastOp' = Op("rollbackStep", rb.index)
  /\ UNCHANGED << ledger, hasSubgraph, cacheVars, jobVars, syncHistoryPromise, sync, conv, callerPc, cl,
                  dbTx, dbFailed, dbMemo, dbSyncIndex, dbFailIdx >>

\* this.syncIndex = new_sync_index; sync_index is put or deleted; fail_indexes is read
RollbackIndex ==
  /\ rb.pc = "index"
  /\ Quiet
  /\ Step
  /\ syncIndex' = rb.newSync
  /\ dbSyncIndex' = IF rb.newSync < 0 THEN NoVal ELSE rb.newSync
  /\ rb' = [ rb EXCEPT !.pc = "fail", !.read = dbFailIdx ]
  /\ lastOp' = Op("rollbackStep", rb.index)
  /\ UNCHANGED << ledger, hasSubgraph, jobVars, syncHistoryPromise, sync, conv, callerPc, cl, syncAttempts,
                  unparsedMemo, unparsedPendingMemo, currentHistory, failedHistory,
                  pendingLocalHistory, dbTx, dbFailed, dbMemo, dbPendingMemo, dbFailIdx >>

\* failSyncRecords.filter(idx => idx < rollbackIndex) is put; the call returns
KeepBelow(idxs, bound) == SelectSeq(idxs, LAMBDA idx : idx < bound)
RollbackFail ==
  /\ rb.pc = "fail"
  /\ Quiet
  /\ Step
  /\ dbFailIdx' = IF rb.read.present THEN FailIdxs(KeepBelow(rb.read.idxs, rb.index)) ELSE dbFailIdx
  /\ rb' = IdleCall
  /\ lastOp' = [ Op("rollbackDone", rb.index) EXCEPT !.aux = rb.before ]
  /\ UNCHANGED << ledger, hasSubgraph, cacheVars, jobVars, syncHistoryPromise, sync, conv, callerPc, cl,
                  dbTx, dbFailed, dbMemo, dbPendingMemo, dbSyncIndex >>

\* ------------------------------------------------------------- cleanHistory
\* await db.clear(TX_TABLE): the first clear is issued once the wait is over
CleanFirst ==
  /\ dbTx' = NoMap
  /\ cl' = [ IdleCall EXCEPT !.pc = "failed" ]
  /\ UNCHANGED << ledger, hasSubgraph, cacheVars, jobVars, syncHistoryPromise, sync, conv, callerPc, rb,
                  dbFailed, dbMemo, dbPendingMemo, dbSyncIndex, dbFailIdx >>

cleanHistory ==
  /\ rb.pc = "idle" /\ cl.pc = "idle"
  /\ Quiet
  /\ Call
  /\ IF MustWait
     THEN /\ cl' = [ IdleCall EXCEPT !.pc = "waiting" ]
          /\ UNCHANGED << ledger, hasSubgraph, cacheVars, jobVars, dbVars, syncHistoryPromise, sync, conv,
                          callerPc, rb >>
     ELSE CleanFirst
  /\ lastOp' = Op("cleanCall", 0)

CleanResume ==
  /\ cl.pc = "ready"
  /\ Step
  /\ CleanFirst
  /\ lastOp' = Op("cleanResume", 0)

\* the clears and deletes that follow, one await each
CleanStep ==
  /\ cl.pc \in { "failed", "memo", "pending", "syncIndex", "failIdx" }
  /\ Quiet
  /\ Step
  /\ dbFailed' = IF cl.pc = "failed" THEN << >> ELSE dbFailed
  /\ dbMemo' = IF cl.pc = "memo" THEN NoMap ELSE dbMemo
  /\ dbPendingMemo' = IF cl.pc = "pending" THEN NoMap ELSE dbPendingMemo
  /\ dbSyncIndex' = IF cl.pc = "syncIndex" THEN NoVal ELSE dbSyncIndex
  /\ dbFailIdx' = IF cl.pc = "failIdx" THEN NoFail ELSE dbFailIdx
  /\ cl' = [ cl EXCEPT !.pc = CASE cl.pc = "failed" -> "memo"
                                [] cl.pc = "memo" -> "pending"
                                [] cl.pc = "pending" -> "syncIndex"
                                [] cl.pc = "syncIndex" -> "failIdx"
                                [] OTHER -> "caches" ]
  /\ lastOp' = Op("cleanStep", 0)
  /\ UNCHANGED << ledger, hasSubgraph, cacheVars, jobVars, syncHistoryPromise, sync, conv, callerPc, rb, dbTx >>

\* the caches cleanHistory clears (and syncIndex, reset by cleanIndexes)
CleanCaches ==
  /\ cl.pc = "caches"
  /\ Quiet
  /\ Step
  /\ syncIndex' = -1
  /\ unparsedMemo' = << >>
  /\ unparsedPendingMemo' = << >>
  /\ currentHistory' = NoMap
  /\ failedHistory' = << >>
  /\ cl' = IdleCall
  /\ lastOp' = Op("cleanDone", 0)
  /\ UNCHANGED << ledger, hasSubgraph, jobVars, dbVars, syncHistoryPromise, sync, conv, callerPc, rb,
                  syncAttempts, pendingLocalHistory >>

\* ------------------------------------------------------------ preloadCache
\* The memos below the sync index to put back among the unparsed ones: those
\* of fail_indexes or, when the store has no fail_indexes, every memo
\* without a record in TX_STORE.
ScanIfAbsent(store) ==
  IF store.dbFailIdx.present
  THEN << >>
  ELSE SortedSeq({ k \in DOMAIN store.dbMemo : k \notin DOMAIN store.dbTx })
LostKeys(store) ==
  IF store.dbFailIdx.present
  THEN SelectSeq(store.dbFailIdx.idxs, LAMBDA idx : idx \in DOMAIN store.dbMemo)
  ELSE SortedSeq({ k \in DOMAIN store.dbMemo : k \notin DOMAIN store.dbTx })

\* the caches a new HistoryStorage builds from a store
PreloadFrom(store) ==
  LET index == IF store.dbSyncIndex # NoVal /\ store.dbSyncIndex # 0 THEN store.dbSyncIndex ELSE -1
      minedKeys == SortedSeq({ k \in DOMAIN store.dbMemo : k >= index + 1 })
      unprocessed == [ i \in 1 .. Len(minedKeys) |-> [ k |-> store.dbMemo[minedKeys[i]].index,
                                                       v |-> store.dbMemo[minedKeys[i]] ] ]
      lastMinedMemoIndex == IF minedKeys = << >> THEN -1
                            ELSE store.dbMemo[minedKeys[Len(minedKeys)]].index
      pendingKeys == SortedSeq({ k \in DOMAIN store.dbPendingMemo :
                                   k >= index + 1 /\ store.dbPendingMemo[k].index > lastMinedMemoIndex })
      lostKeys == LostKeys(store)
      RECURSIVE Restore(_, _)
      Restore(m, keys) ==
        IF keys = << >> THEN m
        ELSE Restore(MapSet(m, Head(keys), store.dbMemo[Head(keys)]), Tail(keys))
  IN [ syncIndex |-> index,
       unparsedMemo |-> Restore(unprocessed, lostKeys),
       unparsedPendingMemo |-> [ i \in 1 .. Len(pendingKeys) |->
                                   [ k |-> store.dbPendingMemo[pendingKeys[i]].index,
                                     v |-> store.dbPendingMemo[pendingKeys[i]] ] ],
       currentHistory |-> store.dbTx,
       failedHistory |-> store.dbFailed ]

Store == [ dbTx |-> dbTx, dbFailed |-> dbFailed, dbMemo |-> dbMemo, dbPendingMemo |-> dbPendingMemo,
           dbSyncIndex |-> dbSyncIndex, dbFailIdx |-> dbFailIdx ]
Preload == PreloadFrom(Store)

\* the page is reloaded: HistoryStorage.init on the store as it is
Restart ==
  /\ lastOp.op # "restart"
  /\ Call
  /\ syncIndex' = Preload.syncIndex
  /\ unparsedMemo' = Preload.unparsedMemo
  /\ unparsedPendingMemo' = Preload.unparsedPendingMemo
  /\ currentHistory' = Preload.currentHistory
  /\ failedHistory' = Preload.failedHistory
  /\ pendingLocalHistory' = << >>
  /\ syncAttempts' = 0
  /\ queuedTxs' = NoMap
  /\ sentTxs' = NoMap
  /\ recs' = [ j \in Jobs |-> NoRec ]
  /\ jobPc' = [ j \in Jobs |-> NoJob ]
  /\ syncHistoryPromise' = "none"
  /\ sync' = "idle"
  /\ conv' = [ mined |-> IdleConv, pend |-> IdleConv, last |-> Forget(conv.last) ]
  /\ callerPc' = [ c \in Callers |-> "idle" ]
  /\ rb' = IdleCall
  /\ cl' = IdleCall
  /\ lastOp' = Op("restart", 0)
  /\ UNCHANGED << ledger, hasSubgraph, dbVars >>

\* The durable writes of the tail of syncHistory, in the order they are
\* issued: put(index, record) for each mined record, then fail_indexes, then
\* sync_index. The store with the first `puts` record writes done and, with
\* failIdx, the write of fail_indexes; the write of sync_index is not.
PartlyWritten(mined, pend, puts, failIdx) ==
  LET historyRecords == mined.records \o pend.records
      written == ApplyRecords(recs, SubSeq(historyRecords, 1, puts),
                   [ history |-> NoMap, db |-> dbTx, newSyncIndex |-> syncIndex ])
  IN [ Store EXCEPT !.dbTx = written.db,
                    !.dbFailIdx = IF failIdx THEN CommitPass(mined, pend).dbFailIdx ELSE @ ]

\* The process stops in the tail of syncHistory, between two of its durable
\* writes, and the page is loaded again: HistoryStorage.init on the store
\* as the writes done have left it.
CrashInPass(which, other, pending) ==
  /\ conv[which].st = "fetch"
  /\ conv[other].st = "done"
  /\ sync = "pass"
  /\ Quiet
  /\ Call
  /\ LET memos == conv[which].memos
         requested == { memos[i].index : i \in 1 .. Len(memos) }
     IN \E answered \in SUBSET requested :
        \E subResp \in (IF hasSubgraph THEN Orderings(answered) ELSE { << >> }) :
        \E rpcOk \in SUBSET (requested \ Range(subResp)) :
          /\ hasSubgraph \/ answered = {}
          /\ \E r \in { convertToHistory(memos, pending, hasSubgraph, subResp, rpcOk,
                                          recs, sentTxs, queuedTxs) } :
             LET done == [ IdleConv EXCEPT !.st = "done", !.memos = memos, !.records = r.records,
                                          !.succIdxs = r.succIdxs, !.failIdxs = r.failIdxs,
                                          !.resyncIdxs = r.resyncIdxs ]
                 mined == IF pending THEN conv[other] ELSE done
                 pend == IF pending THEN done ELSE conv[other]
                 n == Len(mined.records \o pend.records)
             IN /\ ~ r.thrown
                /\ \E puts \in 0 .. n, failIdx \in BOOLEAN :
                     /\ failIdx => puts = n
                     /\ failIdx \/ puts > 0
                     /\ \E store \in { PartlyWritten(mined, pend, puts, failIdx) } :
                          /\ dbTx' = store.dbTx
                          /\ dbFailIdx' = store.dbFailIdx
                          /\ syncIndex' = PreloadFrom(store).syncIndex
                          /\ unparsedMemo' = PreloadFrom(store).unparsedMemo
                          /\ unparsedPendingMemo' = PreloadFrom(store).unparsedPendingMemo
                          /\ currentHistory' = PreloadFrom(store).currentHistory
                          /\ failedHistory' = PreloadFrom(store).failedHistory
                          /\ lastOp' = [ Op("crash", puts) EXCEPT !.aux = store.dbFailIdx ]
  /\ pendingLocalHistory' = << >>
  /\ syncAttempts' = 0
  /\ queuedTxs' = NoMap
  /\ sentTxs' = NoMap
  /\ recs' = [ j \in Jobs |-> NoRec ]
  /\ jobPc' = [ j \in Jobs |-> NoJob ]
  /\ syncHistoryPromise' = "none"
  /\ sync' = "idle"
  /\ conv' = [ mined |-> IdleConv, pend |-> IdleConv, last |-> Forget(conv.last) ]
  /\ callerPc' = [ c \in Callers |-> "idle" ]
  /\ rb' = IdleCall
  /\ cl' = IdleCall
  /\ UNCHANGED << ledger, hasSubgraph, dbFailed, dbMemo, dbPendingMemo, dbSyncIndex >>

CrashInMined == CrashInPass("mined", "pend", FALSE)
CrashInPending == CrashInPass("pend", "mined", TRUE)

\* ------------------------------------------------------------ specification
InitState(traced) ==
  /\ ledger \in Ledgers
  /\ hasSubgraph \in BOOLEAN
  /\ syncIndex = -1
  /\ syncAttempts = 0
  /\ queuedTxs = NoMap
  /\ sentTxs = NoMap
  /\ recs = [ j \in Jobs |-> NoRec ]
  /\ unparsedMemo = << >>
  /\ unparsedPendingMemo = << >>
  /\ currentHistory = NoMap
  /\ failedHistory = << >>
  /\ pendingLocalHistory = << >>
  /\ syncHistoryPromise = "none"
  /\ sync = "idle"
  /\ conv = [ mined |-> IdleConv, pend |-> IdleConv, last |-> [ NoPass EXCEPT !.traced = traced ] ]
  /\ callerPc = [ c \in Callers |-> "idle" ]
  /\ rb = IdleCall
  /\ cl = IdleCall
  /\ jobPc = [ j \in Jobs |-> NoJob ]
  /\ dbTx = NoMap
  /\ dbFailed = << >>
  /\ dbMemo = NoMap
  /\ dbPendingMemo = NoMap
  /\ dbSyncIndex = NoVal
  /\ dbFailIdx = NoFail
  /\ calls = 0
  /\ lastOp = Op("init", 0)

Init == InitState(FALSE)

\* getAllHistory from several callers while the state sync saves memos
Next ==
  \/ \E c \in Callers : GetAllHistory(c)
  \/ \E c \in Callers : Return(c)
  \/ ConvertMined
  \/ ConvertPending
  \/ \E slot \in Slots, pending \in BOOLEAN : SaveMemo(slot, TRUE, pending)

InitCycle == Init /\ ledger = CycleLedger
Spec == InitCycle /\ [][Next]_vars

\* the reconciler on every kind of transaction
Rotations == { [ slot \in Slots |-> Kinds[((slot + k) % Len(Kinds)) + 1] ] :
                 k \in 0 .. Len(Kinds) - 1 }
InitConv == Init /\ ledger \in Rotations
NextConv ==
  \/ GetAllHistory(1)
  \/ Return(1)
  \/ ConvertMined
  \/ ConvertPending
  \/ \E slot \in Slots, pending \in BOOLEAN : SaveMemo(slot, TRUE, pending)
SpecConv == InitConv /\ [][NextConv]_vars

\* the passes of a sync with the answers of the fetchers on record, on a
\* ledger with a direct-deposit batch
BatchLedger == [ slot \in Slots |-> Kinds[((slot + 2) % Len(Kinds)) + 1] ]
InitTraced == InitState(TRUE) /\ ledger = BatchLedger
SpecTraced == InitTraced /\ [][NextConv]_vars

\* the job monitors next to the sync
NextJobs ==
  \/ GetAllHistory(1)
  \/ Return(1)
  \/ ConvertMined
  \/ ConvertPending
  \/ \E slot \in Slots, pending \in BOOLEAN : SaveMemo(slot, TRUE, pending)
  \/ \E j \in Jobs, slot \in Slots : keepQueuedTransactions(j, slot)
  \/ \E j \in Jobs, h \in Hashes, final \in BOOLEAN : PollSent(j, h, final)
  \/ \E j \in Jobs : FailedByRelayer(j)
  \/ \E j \in Jobs : FailedByRelayerEnd(j)
  \/ \E j \in Jobs, h \in Hashes : FailedByPool(j, h)
  \/ \E j \in Jobs : FailedByPoolEnd(j)
SpecJobs == InitCycle /\ [][NextJobs]_vars

\* the job monitors with every answer of the relayer, started anew after
\* they have ended
NextRepoll ==
  \/ NextJobs
  \/ \E j \in Jobs, state \in { "waiting", "sent" } : PollUnchanged(j, state)
  \/ \E j \in Jobs : RepollFailed(j)
  \/ \E j \in Jobs : RepollReverted(j)
  \/ \E j \in Jobs : RepollCompleted(j)
SpecRepoll == InitCycle /\ [][NextRepoll]_vars

\* the jobs with their monitors: every poll is made by a running
\* jobMonitoringWorker, started by a sender or by waitJobTxHash
WorkerSent(j, h, final) == Polling(j) /\ PollSent(j, h, final)
WorkerUnchanged(j, state) == Polling(j) /\ PollUnchanged(j, state)
WorkerFailed(j) == Polling(j) /\ FailedByRelayer(j)
WorkerReverted(j, h) == Polling(j) /\ FailedByPool(j, h)
WorkerFailedAgain(j) == Polling(j) /\ RepollFailed(j)
NextMonitor ==
  \/ \E j \in Jobs : startJobMonitoring(j)
  \/ \E j \in Jobs : MonitorReturns(j)
  \/ \E j \in Jobs : MonitorFinally(j)
  \/ \E j \in Jobs, slot \in Slots : keepQueuedTransactions(j, slot)
  \/ \E j \in Jobs, h \in Hashes, final \in BOOLEAN : WorkerSent(j, h, final)
  \/ \E j \in Jobs, state \in { "waiting", "sent" } : WorkerUnchanged(j, state)
  \/ \E j \in Jobs : WorkerFailed(j)
  \/ \E j \in Jobs : FailedByRelayerEnd(j)
  \/ \E j \in Jobs, h \in Hashes : WorkerReverted(j, h)
  \/ \E j \in Jobs : FailedByPoolEnd(j)
  \/ \E j \in Jobs : WorkerFailedAgain(j)
SpecMonitor == InitCycle /\ [][NextMonitor]_vars

\* the monitors with a caller of waitJobTxHash
NextWait ==
  \/ NextMonitor
  \/ \E j \in Jobs : waitJobTxHash(j)
  \/ \E j \in Jobs : WaitTick(j)
SpecWait == InitCycle /\ [][NextWait]_vars
\* the timers of the two loops fire and the awaited calls return: what is
\* running goes on; nobody is obliged to make a new call
WaitRuns ==
  \/ \E j \in Jobs : WaitTick(j)
  \/ \E j \in Jobs : MonitorReturns(j)
  \/ \E j \in Jobs : MonitorFinally(j)
  \/ \E j \in Jobs : FailedByRelayerEnd(j)
  \/ \E j \in Jobs : FailedByPoolEnd(j)
SpecWaitFair == SpecWait /\ WF_vars(WaitRuns)

\* rollbackHistory and cleanHistory next to the sync
NextRollback ==
  \/ GetAllHistory(1)
  \/ Return(1)
  \/ ConvertMined
  \/ ConvertPending
  \/ \E slot \in Slots, pending \in BOOLEAN : SaveMemo(slot, TRUE, pending)
  \/ \E slot \in Slots : rollbackHistory(IndexOf(slot))
  \/ RollbackResume
  \/ RollbackMemo
  \/ RollbackPending
  \/ RollbackIndex
  \/ RollbackFail
  \/ cleanHistory
  \/ CleanResume
  \/ CleanStep
  \/ CleanCaches
SpecRollback == InitCycle /\ [][NextRollback]_vars

\* rollbackHistory while jobs are tracked and fail
NextRollbackJobs ==
  \/ GetAllHistory(1)
  \/ Return(1)
  \/ ConvertMined
  \/ ConvertPending
  \/ \E slot \in Slots, pending \in BOOLEAN : SaveMemo(slot, TRUE, pending)
  \/ \E slot \in Slots : rollbackHistory(IndexOf(slot))
  \/ RollbackResume
  \/ RollbackMemo
  \/ RollbackPending
  \/ RollbackIndex
  \/ RollbackFail
  \/ \E j \in Jobs, slot \in Slots : keepQueuedTransactions(j, slot)
  \/ \E j \in Jobs, h \in Hashes, final \in BOOLEAN : PollSent(j, h, final)
  \/ \E j \in Jobs : FailedByRelayer(j)
  \/ \E j \in Jobs : FailedByRelayerEnd(j)
  \/ \E j \in Jobs, h \in Hashes : FailedByPool(j, h)
  \/ \E j \in Jobs : FailedByPoolEnd(j)
SpecRollbackJobs == InitCycle /\ [][NextRollbackJobs]_vars

\* cleanHistory while jobs are tracked
NextClean ==
  \/ GetAllHistory(1)
  \/ Return(1)
  \/ ConvertMined
  \/ ConvertPending
  \/ \E slot \in Slots, pending \in BOOLEAN : SaveMemo(slot, TRUE, pending)
  \/ \E j \in Jobs, slot \in Slots : keepQueuedTransactions(j, slot)
  \/ \E j \in Jobs, h \in Hashes, final \in BOOLEAN : PollSent(j, h, final)
  \/ cleanHistory
  \/ CleanResume
  \/ CleanStep
  \/ CleanCaches
SpecClean == InitCycle /\ [][NextClean]_vars

\* the page is reloaded between the calls
NextRestart ==
  \/ GetAllHistory(1)
  \/ Return(1)
  \/ ConvertMined
  \/ ConvertPending
  \/ \E slot \in Slots, withHash \in BOOLEAN, pending \in BOOLEAN : SaveMemo(slot, withHash, pending)
  \/ \E slot \in Slots : rollbackHistory(IndexOf(slot))
  \/ RollbackResume
  \/ RollbackMemo
  \/ RollbackPending
  \/ RollbackIndex
  \/ RollbackFail
  \/ Restart
SpecRestart == InitCycle /\ [][NextRestart]_vars

\* the sync on mined memos saved with or without a transaction hash, and
\* the page reloaded between the calls
NextHashless ==
  \/ GetAllHistory(1)
  \/ Return(1)
  \/ ConvertMined
  \/ ConvertPending
  \/ \E slot \in Slots, withHash \in BOOLEAN : SaveMemo(slot, withHash, FALSE)
  \/ Restart
SpecHashless == InitCycle /\ [][NextHashless]_vars
\* every remote call returns and every settled promise wakes its awaiters
SyncRuns == ConvertMined \/ ConvertPending \/ Return(1)
SpecHashlessFair == SpecHashless /\ WF_vars(SyncRuns)

\* the sync with the process stopped and the page loaded again at any point
NextCrash ==
  \/ GetAllHistory(1)
  \/ Return(1)
  \/ ConvertMined
  \/ ConvertPending
  \/ \E slot \in Slots, pending \in BOOLEAN : SaveMemo(slot, TRUE, pending)
  \/ CrashInMined
  \/ CrashInPending
  \/ Restart
SpecCrash == InitCycle /\ [][NextCrash]_vars

\* The sync after a job was submitted and sent for every slot, job j for the
\* transaction of slot j - 1: keepQueuedTransactions([rec], j), then
\* setTxHashForQueuedTransactions(j, hash) from the monitor of each. The
\* answers of the fetchers are on record.
Sent == { slot + 1 : slot \in Slots }
SentRecord(j) ==
  [ NewRecord(SpeculativeType(KindAt(j - 1)), CommitAt(j - 1), SubmitTs(j), HashAt(j - 1), TRUE,
              IF KindAt(j - 1) = "aggr" THEN 0 ELSE 1)
    EXCEPT !.ref = j, !.fee = IF KindAt(j - 1) = "in" THEN 0 ELSE FeeAt(j - 1) ]
InitSent ==
  /\ ledger = CycleLedger
  /\ hasSubgraph \in BOOLEAN
  /\ syncIndex = -1
  /\ syncAttempts = 0
  /\ queuedTxs = [ j \in Sent |-> << j >> ]
  /\ sentTxs = [ h \in { HashAt(j - 1) : j \in Sent } |->
                   << CHOOSE j \in Sent : HashAt(j - 1) = h >> ]
  /\ recs = [ j \in Sent |-> SentRecord(j) ]
  /\ unparsedMemo = << >>
  /\ unparsedPendingMemo = << >>
  /\ currentHistory = NoMap
  /\ failedHistory = << >>
  /\ pendingLocalHistory = << >>
  /\ syncHistoryPromise = "none"
  /\ sync = "idle"
  /\ conv = [ mined |-> IdleConv, pend |-> IdleConv, last |-> [ NoPass EXCEPT !.traced = TRUE ] ]
  /\ callerPc = [ c \in Callers |-> "idle" ]
  /\ rb = IdleCall
  /\ cl = IdleCall
  /\ jobPc = [ j \in Jobs |-> NoJob ]
  /\ dbTx = NoMap
  /\ dbFailed = << >>
  /\ dbMemo = NoMap
  /\ dbPendingMemo = NoMap
  /\ dbSyncIndex = NoVal
  /\ dbFailIdx = NoFail
  /\ calls = 0
  /\ lastOp = Op("init", 0)
SpecSubst == InitSent /\ [][NextConv]_vars

\* ------------------------------------------------------------------ claims
\* what a finished conversion reports about a memo index it was given
MemoIndexes(c) == { c.memos[i].index : i \in 1 .. Len(c.memos) }
HasRecord(c, index) == \E i \in 1 .. Len(c.records) : MemoKey(c.records[i].index) = index
Unfetched(c, index) == Contains(c.failIdxs, index)
NeedsResync(c, index) == Contains(c.resyncIdxs, index)
Outcomes(c, index) ==
  (IF HasRecord(c, index) THEN 1 ELSE 0) + (IF Unfetched(c, index) THEN 1 ELSE 0)
  + (IF NeedsResync(c, index) THEN 1 ELSE 0)
ConvsDone == { w \in { "mined", "pend" } : conv[w].st = "done" }
MaxOf(S) == CHOOSE x \in S : \A y \in S : y <= x
PassEnded == lastOp.op \in { "commit", "retry" }

C2_NoOrphan ==
  lastOp.op = "return" =>
    \A j \in Jobs :
      jobPc[j].state \in { "sent", "completed" } /\ StartsWith0x(recs[j].txHash) =>
        \E i \in 1 .. Len(View) : RecOf(View[i]).commitment = recs[j].commitment

\* C3: getAllHistory starts a sync only when none is in progress; a call
\* issued during a sync leaves the sync as it is and resumes only once the
\* sync has finished and its promise is settled.
C3_SingleFlight ==
  [][ /\ lastOp'.op = "getAllStart" => sync = "idle" /\ syncHistoryPromise = "none"
      /\ lastOp'.op = "getAllJoin" =>
           /\ sync # "idle"
           /\ sync' = sync /\ conv' = conv /\ syncAttempts' = syncAttempts
      /\ \A c \in Callers :
           callerPc[c] = "waiting" /\ callerPc'[c] = "ready" =>
             sync' = "idle" /\ syncHistoryPromise' = "none" ]_vars

\* a second caller has joined the pass that is in progress
C3_Witness ==
  /\ lastOp.op = "getAllJoin" /\ sync = "pass"
  /\ \A c \in Callers : callerPc[c] = "waiting"

\* C4: syncIndex never decreases in a step of a sync pass or of
\* saveDecryptedMemo; only rollbackHistory and cleanHistory lower it.
C4_Monotonic ==
  [][ syncIndex' < syncIndex =>
        \/ rb.pc = "index" /\ rb'.pc = "fail"
        \/ cl.pc = "caches" /\ cl'.pc = "idle" ]_vars

\* a pass has ended above an index that the next pass still has to reconcile
C4_Witness ==
  /\ lastOp.op = "retry"
  /\ \E k \in MapKeys(unparsedMemo) : k < syncIndex

\* C5: after every sync pass syncIndex is the greatest index of a mined record.
C5_SyncIndexIsMaxMined ==
  PassEnded => syncIndex = MaxOf(DOMAIN dbTx \cup { -1 })

\* C6: once rollbackHistory(N) has completed no record, mined memo or pending
\* memo with index >= N is left in the caches or in the tables.
C6_NothingAtOrAbove ==
  lastOp.op = "rollbackDone" =>
    \A k \in DOMAIN currentHistory \cup MapKeys(unparsedMemo) \cup MapKeys(unparsedPendingMemo)
             \cup DOMAIN dbTx \cup DOMAIN dbMemo \cup DOMAIN dbPendingMemo :
      k < lastOp.arg

\* a rollback has completed above a mined record that survives it
C6_Witness ==
  /\ lastOp.op = "rollbackDone"
  /\ \E k \in DOMAIN dbTx \cap DOMAIN currentHistory \cap DOMAIN dbMemo : k < lastOp.arg

\* C7: once rollbackHistory(N) has completed syncIndex is the greatest index
\* below N of a surviving mined record, and is unset (the durable sync_index
\* removed) exactly when there is none.
C7_SyncIndexAfterRollback ==
  lastOp.op = "rollbackDone" =>
    /\ syncIndex = MaxOf({ k \in DOMAIN dbTx : k < lastOp.arg } \cup { -1 })
    /\ syncIndex = -1 <=> dbSyncIndex = NoVal

\* C8: once rollbackHistory(N) has completed fail_indexes holds exactly the
\* indexes below N that it held when the rollback was called.
C8_FailIndexesTruncated ==
  lastOp.op = "rollbackDone" =>
    /\ dbFailIdx.present = lastOp.aux.present
    /\ Range(dbFailIdx.idxs) = { i \in Range(lastOp.aux.idxs) : i < lastOp.arg }

\* C9: once cleanHistory has completed every table and every cache is empty
\* and syncIndex is unset.
C9_AllCleared ==
  lastOp.op = "cleanDone" =>
    /\ dbTx = NoMap /\ dbFailed = << >> /\ dbMemo = NoMap /\ dbPendingMemo = NoMap
    /\ dbSyncIndex = NoVal /\ ~ dbFailIdx.present
    /\ unparsedMemo = << >> /\ unparsedPendingMemo = << >>
    /\ currentHistory = NoMap /\ failedHistory = << >>
    /\ queuedTxs = NoMap /\ sentTxs = NoMap /\ pendingLocalHistory = << >>
    /\ syncIndex = -1

\* C10: no sync pass is in progress while rollbackHistory or cleanHistory is
\* between its first change of the state and its completion.
C10_NoSyncDuringRollback ==
  rb.pc \in { "memo", "pending", "index", "fail" }
  \/ cl.pc \in { "failed", "memo", "pending", "syncIndex", "failIdx", "caches" }
  => sync = "idle"

\* the timestamps of the list getAllHistory has returned
RetTimestamps == [ i \in 1 .. Len(lastOp.ret) |-> RecOf(lastOp.ret[i]).timestamp ]
RetIsMerge == Len(lastOp.ret) = Len(View) /\ Range(lastOp.ret) = Range(View)

\* C11 (as stated): getAllHistory returns the confirmed, failed and
\* speculative records in one list sorted by timestamp in descending order.
C11_SortedDescending ==
  lastOp.op = "return" =>
    /\ RetIsMerge
    /\ \A i, k \in 1 .. Len(lastOp.ret) : i < k => RetTimestamps[i] >= RetTimestamps[k]

\* C11 (amended): getAllHistory returns the confirmed, failed and speculative
\* records in one list sorted by timestamp in ascending order.
C11_SortedAscending ==
  lastOp.op = "return" =>
    /\ RetIsMerge
    /\ \A i, k \in 1 .. Len(lastOp.ret) : i < k => RetTimestamps[i] <= RetTimestamps[k]

\* a returned list that merges a confirmed, a failed and a speculative record
\* of different timestamps
C11_Witness ==
  /\ lastOp.op = "return"
  /\ currentHistory # NoMap /\ failedHistory # << >>
  /\ \E i, k \in 1 .. Len(lastOp.ret) : RetTimestamps[i] < RetTimestamps[k]

PassRan == PassEnded \/ (lastOp.op = "getAllStart" /\ sync = "idle")
\* the records the pass that has just ended had derived
HistoryRecords == IF PassEnded THEN lastOp.ret.made[1] ELSE << >>
PendingAt == { i \in DOMAIN currentHistory : RecOf(currentHistory[i]).state = "Pending" }

\* C13: after every sync pass each Pending record of currentHistory is one
\* of the records this pass has derived (none when the pass had no memo to
\* process): a Pending record of an earlier pass is kept only if re-derived.
C13_PendingIsLive ==
  PassRan =>
    \A i \in PendingAt :
      \E k \in 1 .. Len(HistoryRecords) :
        HistoryRecords[k].index = i /\ HistoryRecords[k].record = currentHistory[i]

\* a pass without memos has ended after an earlier pass had put the
\* speculative record of a sent job into currentHistory for a mined memo:
\* the record is discarded from currentHistory
C13_Witness ==
  /\ lastOp.op = "getAllStart" /\ sync = "idle"
  /\ dbTx = NoMap /\ PendingAt = {}
  /\ \E j \in Jobs :
       /\ jobPc[j].state = "sent" /\ recs[j].state = "Pending"
       /\ IndexOf(jobPc[j].slot) \in DOMAIN dbMemo
       /\ IndexOf(jobPc[j].slot) \notin MapKeys(unparsedMemo)
       /\ dbFailIdx.present

\* C14: when a pass of a sync was given the same memos and the same answers
\* of the fetchers as the pass before it, it derives the same records at the
\* same indexes with the same unfetched and needs-resync indexes, and leaves
\* the confirmed cache, the durable store of records, the persisted
\* unresolved indexes and the sync index as they were after the pass before.
C14_Idempotent ==
  [][ lastOp'.op \in { "commit", "retry" } /\ lastOp'.arg = 1
      => /\ conv.last.ran /\ lastOp'.ret.given = conv.last.given
         /\ lastOp'.ret.made = conv.last.made
         /\ currentHistory' = currentHistory /\ dbTx' = dbTx
         /\ dbFailIdx' = dbFailIdx
         /\ syncIndex' = syncIndex /\ dbSyncIndex' = dbSyncIndex ]_vars

\* a pass has been repeated on the same memos with the same answers, among
\* them a batch that needs a re-sync and a pending memo: it has derived
\* records and has left a memo unresolved
C14_Witness ==
  /\ PassEnded /\ lastOp.arg = 1
  /\ lastOp.ret.made[1] # << >> /\ lastOp.ret.made[3] # << >>
  /\ lastOp.ret.given[4] # << >>

\* the occurrences of the record r in the failed set
FailedOccurrences(r) == Cardinality({ i \in 1 .. Len(failedHistory) : failedHistory[i].ref = r })

\* C15: a poll of a job's terminal state that follows the first one changes
\* nothing in the history state, and a record of a job is in the failed
\* set at most once, with one outcome.
C15_TerminalOnce ==
  /\ [][ lastOp'.op = "repoll" =>
            UNCHANGED << cacheVars, dbVars, queuedTxs, sentTxs, recs >> ]_vars
  /\ [] (\A r \in DOMAIN recs : FailedOccurrences(r) <= 1)

\* the entries of the hash->records map that hold the record r
HashesOf(sent, r) == { h \in DOMAIN sent : Contains(sent[h], r) }
\* the record r is in the failed set, cache and durable store, as it is now
InFailedSet(r) ==
  /\ \E i \in 1 .. Len(failedHistory) : failedHistory[i].ref = r
  /\ \E i \in 1 .. Len(dbFailed) : dbFailed[i] = [ recs[r] EXCEPT !.ref = 0 ]

\* C16: a poll that reports a job with speculative records as failed marks
\* each of them RejectedByRelayer with the reported reason and appends it to
\* the failed set, in the cache and in the durable store; when the call has
\* ended the job->records map does not hold the job and the hash->records
\* map does not hold its records.
C16_FailedMigrates ==
  [][ \A j \in Jobs :
        /\ jobPc[j].state = "waiting" /\ jobPc'[j].state = "failing" =>
              \A i \in 1 .. Len(queuedTxs[j]) :
                 LET r == queuedTxs[j][i]
                 IN /\ recs'[r].state = "RejectedByRelayer"
                    /\ recs'[r].failureReason = "relayer"
                    /\ Len(failedHistory') = Len(failedHistory) + Len(queuedTxs[j])
                    /\ Len(dbFailed') = Len(dbFailed) + Len(queuedTxs[j])
                    /\ InFailedSet(r)'
        /\ jobPc[j].state = "failing" /\ jobPc'[j].state = "failed" =>
              /\ j \notin DOMAIN queuedTxs'
              /\ j \in DOMAIN queuedTxs =>
                    \A i \in 1 .. Len(queuedTxs[j]) : HashesOf(sentTxs', queuedTxs[j][i]) = {} ]_vars

\* C17: a poll that reports a job as sent with a hash h other than the last
\* one seen for it leaves every speculative record of the job with txHash h
\* and the hash->records map with exactly the records of the job under h;
\* the job stays in the job->records map and in a state that is not terminal.
C17_HashPropagated ==
  [][ \A j \in Jobs :
        /\ lastOp'.op = "hashAssigned"
        /\ jobPc'[j].lastTxHash # jobPc[j].lastTxHash
        /\ j \in DOMAIN queuedTxs
        => LET h == jobPc'[j].lastTxHash
           IN /\ \A i \in 1 .. Len(queuedTxs[j]) : recs'[queuedTxs[j][i]].txHash = h
              /\ h \in DOMAIN sentTxs'
              /\ sentTxs'[h] = queuedTxs[j]
              /\ queuedTxs' = queuedTxs
              /\ jobPc'[j].state = "sent" ]_vars
\* a job sent anew: its record is under the hash of the poll and still under
\* the hash of the poll before
C17_Witness ==
  /\ lastOp.op = "hashAssigned"
  /\ \E j \in DOMAIN queuedTxs :
        /\ jobPc[j].state = "sent"
        /\ recs[j].txHash = jobPc[j].lastTxHash
        /\ HashesOf(sentTxs, j) = JobHashes(j)

\* C18: a poll that reports a job with speculative records as reverted marks
\* each of them RejectedByPool with the resolved reason and appends it to
\* the failed set; when the call has ended no entry of the job->records map
\* and no entry of the hash->records map, under the current or an earlier
\* hash of the job, refers to these records.
C18_RevertedMigrates ==
  [][ \A j \in Jobs :
        /\ jobPc[j].state = "sent" /\ jobPc'[j].state = "reverting" /\ j \in DOMAIN queuedTxs =>
              \A i \in 1 .. Len(queuedTxs[j]) :
                 LET r == queuedTxs[j][i]
                 IN /\ recs'[r].state = "RejectedByPool"
                    /\ recs'[r].failureReason = "pool"
                    /\ InFailedSet(r)'
        /\ jobPc[j].state = "reverting" /\ jobPc'[j].state = "reverted" =>
              /\ j \notin DOMAIN queuedTxs'
              /\ j \in DOMAIN queuedTxs =>
                    \A i \in 1 .. Len(queuedTxs[j]) :
                       /\ HashesOf(sentTxs', queuedTxs[j][i]) = {}
                       /\ \A k \in DOMAIN queuedTxs' : ~ Contains(queuedTxs'[k], queuedTxs[j][i]) ]_vars

\* the job j is reported completed by this step
Completes(j) == jobPc[j].state = "sent" /\ jobPc'[j].state = "completed"
\* the step creates no record in the history, cache or durable store
NoRecordCreated == currentHistory' = currentHistory /\ dbTx' = dbTx

C20_PollIdempotent ==
  [][ lastOp'.op \in { "pollWaiting", "pollSame" } =>
        UNCHANGED << recs, queuedTxs, sentTxs, cacheVars, dbVars >> ]_vars
\* a poll has repeated the hash of a job whose record both maps hold
C20_Witness ==
  /\ lastOp.op = "pollSame"
  /\ lastOp.arg \in DOMAIN queuedTxs
  /\ jobPc[lastOp.arg].state = "sent"
  /\ recs[lastOp.arg].txHash = jobPc[lastOp.arg].lastTxHash
  /\ jobPc[lastOp.arg].lastTxHash \in HashesOf(sentTxs, lastOp.arg)

\* C21: at most one jobMonitoringWorker runs for a job at any time, and a
\* call of startJobMonitoring for a job whose worker is running starts none
\* and returns the promise jobsMonitors holds.
C21_OneLoopPerJob ==
  /\ [] (\A j \in Jobs : jobPc[j].loops <= 1 /\ (Polling(j) => jobPc[j].monitor))
  /\ [][ \A j \in Jobs :
            Polling(j) /\ lastOp'.op = "startJobMonitoring" /\ lastOp'.arg = j =>
              /\ lastOp'.ret = << "existing" >>
              /\ jobPc'[j] = jobPc[j] ]_vars
\* startJobMonitoring was called for a job that a worker is polling, after
\* a poll has assigned the job its hash
C21_Witness ==
  /\ lastOp.op = "startJobMonitoring"
  /\ lastOp.ret = << "existing" >>
  /\ Polling(lastOp.arg)
  /\ jobPc[lastOp.arg].state = "sent"

\* the indexes of the memos that neither the subgraph nor the RPC node has
\* answered in the pass that has just ended
Unanswered(memos, subResp, rpcOk) ==
  { memos[i].index : i \in 1 .. Len(memos) } \ (Range(subResp) \cup rpcOk)
PassUnanswered ==
  IF PassEnded
  THEN Unanswered(lastOp.ret.given[1], lastOp.ret.given[2], lastOp.ret.given[3])
       \cup Unanswered(lastOp.ret.given[4], lastOp.ret.given[5], lastOp.ret.given[6])
  ELSE {}

\* C22: with a hash known for every memo, a pass whose fetchers answer only
\* a part of the indexes raises no error: the indexes not answered are
\* reported unfetched and stored in fail_indexes, the records of the others
\* are in the history, and when the sync ends every caller of getAllHistory
\* that awaited it goes on to return its view.
C22_SoftUnavailability ==
  /\ sync # "hung" /\ lastOp.op # "convertThrown"
  /\ PassEnded =>
        /\ PassUnanswered \subseteq Range(lastOp.ret.made[2])
        /\ PassUnanswered \subseteq Range(dbFailIdx.idxs)
        /\ \A i \in 1 .. Len(lastOp.ret.made[1]) :
              lastOp.ret.made[1][i].index \in DOMAIN currentHistory
  /\ lastOp.op = "commit" => \A c \in Callers : callerPc[c] # "waiting"
\* the sync has ended with an index left unanswered by the subgraph and the
\* RPC node, another one converted, and a caller about to return
C22_Witness ==
  /\ lastOp.op = "commit"
  /\ hasSubgraph
  /\ PassUnanswered # {}
  /\ lastOp.ret.made[1] # << >>
  /\ \E c \in Callers : callerPc[c] = "ready"

\* C23: when a conversion of a pass throws an internal error, the call of
\* getAllHistory that started the pass ends (by raising the error): no
\* caller is left awaiting the promise of the sync.
C23_ErrorPropagates ==
  sync = "hung" => \A c \in Callers : callerPc[c] # "waiting"

\* the committed state: TX_STORE, sync_index and fail_indexes in the store,
\* the confirmed cache and syncIndex in memory
Committed == << dbTx, dbSyncIndex, dbFailIdx, currentHistory, syncIndex >>

\* C24: a pass that ends with an internal error leaves the committed state
\* as it was when the pass started: no step of a running pass other than
\* its regular end, and no step that follows the error, changes it, and a
\* pass in which a conversion has thrown does not reach its regular end.
C24_AbortKeepsCommitted ==
  [][ /\ sync \in { "pass", "hung" } /\ lastOp'.op \notin { "commit", "retry", "restart" }
          => UNCHANGED Committed
      /\ sync = "hung" => lastOp'.op \notin { "commit", "retry" } ]_vars
\* a conversion has thrown in a sync that follows a committed one
C24_Witness ==
  /\ sync = "hung"
  /\ lastOp.op = "convertThrown"
  /\ dbTx # NoMap
  /\ dbFailIdx.present
  /\ syncIndex >= 0

\* the indexes of the unresolved mined memos that carry no transaction hash
Hashless == { unparsedMemo[i].k : i \in { n \in 1 .. Len(unparsedMemo) : unparsedMemo[n].v.txHash = NoHash } }

\* C25: with a mined memo that has no transaction hash and that no fetcher
\* answers, a caller of getAllHistory awaits a sync that is going on (and
\* so ends with the attempts), the sync ends with the memo unresolved, its
\* index in fail_indexes and no record at it, and a storage built anew has
\* the indexes of fail_indexes among its unresolved memos.
C25_ScenarioB ==
  /\ (\E c \in Callers : callerPc[c] = "waiting") => sync = "pass"
  /\ lastOp.op = "commit" =>
        \A index \in Hashless : /\ index \in Range(dbFailIdx.idxs)
                                /\ index \notin DOMAIN currentHistory
  /\ lastOp.op = "restart" /\ dbFailIdx.present =>
        \A index \in Range(dbFailIdx.idxs) \cap DOMAIN dbMemo : index \in MapKeys(unparsedMemo)

\* the mined memos of the store that have no record in TX_STORE
Unrecorded == { index \in DOMAIN dbMemo : index \notin DOMAIN dbTx }

\* C26: when the process has stopped between two durable writes of a sync
\* pass and the storage is built anew, every mined memo without a record in
\* TX_STORE is among the unresolved memos again.
C26_CrashSafe ==
  lastOp.op = "crash" => Unrecorded \subseteq MapKeys(unparsedMemo)

\* the indexes the pass that has just ended reported as unfetched or as
\* needing a resync
Reported == Range(lastOp.ret.made[2]) \cup Range(lastOp.ret.made[3])

\* C27: the indexes a pass reports as unfetched or needs-resync are the
\* persisted fail_indexes at its end, and when the storage is built anew
\* the mined memo of every persisted index is among the unparsed memos,
\* also when the index is not above the persisted sync index.
C27_UnresolvedSurvives ==
  /\ lastOp.op \in { "commit", "retry" } =>
       dbFailIdx.present /\ Reported \subseteq Range(dbFailIdx.idxs)
  /\ lastOp.op \in { "restart", "crash" } /\ dbFailIdx.present =>
       \A idx \in Range(dbFailIdx.idxs) :
         idx \in DOMAIN dbMemo => idx \in MapKeys(unparsedMemo)
C27_Witness ==
  /\ lastOp.op = "restart"
  /\ \E idx \in Range(dbFailIdx.idxs) :
       idx \in DOMAIN dbMemo /\ idx < dbSyncIndex /\ idx \in MapKeys(unparsedMemo)

\* The memos of one conversion of the pass on record that were not fetched
\* and whose hash has records in sentTxs, with the records due for them.
Substitutable(memos, subResp, rpcOk) ==
  { i \in 1 .. Len(memos) :
      /\ Contains(getTxesDetails(memos, hasSubgraph, subResp, rpcOk).notFetched, memos[i].index)
      /\ memos[i].txHash \in DOMAIN sentTxs }
Substituted(memos, subResp, rpcOk) ==
  \A i \in Substitutable(memos, subResp, rpcOk) :
    /\ ~ Contains(lastOp.ret.made[2], memos[i].index)
    /\ \A k \in 1 .. Len(sentTxs[memos[i].txHash]) :
         Contains(lastOp.ret.made[1],
                  HistoryRecordIdx(RefEntry(sentTxs[memos[i].txHash][k]), memos[i].index + (k - 1)))

\* C28: every memo of a pass whose details were not fetched and whose hash
\* has speculative records in sentTxs yields these records, at memo.index
\* plus their position, and its index is not reported as unfetched.
C28_BestEffort ==
  lastOp.op \in { "commit", "retry" } =>
    /\ Substituted(lastOp.ret.given[1], lastOp.ret.given[2], lastOp.ret.given[3])
    /\ Substituted(lastOp.ret.given[4], lastOp.ret.given[5], lastOp.ret.given[6])

\* the indexes of the mined memos which the pass on record tagged as
\* fetched incompletely
MinedResync ==
  Range(getTxesDetails(lastOp.ret.given[1], hasSubgraph, lastOp.ret.given[2],
                       lastOp.ret.given[3]).needResync)

\* C29: at the end of the pass that tags an index needs-resync, the records
\* of its batch are in the view, its memo is still among the unparsed memos,
\* its index is in the persisted fail_indexes, and a pass that follows in
\* the same sync is given the memo again.
C29_ResyncKept ==
  lastOp.op \in { "commit", "retry" } =>
    \A idx \in MinedResync :
      /\ \A k \in 1 .. MaxDeposits :
           /\ idx + (k - 1) \in DOMAIN currentHistory
           /\ Deref(recs, currentHistory[idx + (k - 1)]).type = "DirectDeposit"
      /\ Contains(lastOp.ret.made[3], idx)
      /\ idx \in MapKeys(unparsedMemo)
      /\ dbFailIdx.present /\ Contains(dbFailIdx.idxs, idx)
      /\ lastOp.op = "retry" =>
           \E i \in 1 .. Len(conv.mined.memos) : conv.mined.memos[i].index = idx
C29_Witness ==
  /\ lastOp.op = "retry"
  /\ MinedResync # {}

MemosFor(e) == IF e.record.state = "Pending" THEN lastOp.ret.given[4] ELSE lastOp.ret.given[1]
IsTransferAt(index) == KindAt(SlotOf(index)) \in { "aggr", "out", "in" }
\* the record entries the pass made from fetched details for the memo
MadeFor(memo, state) ==
  { k \in 1 .. Len(lastOp.ret.made[1]) :
      /\ lastOp.ret.made[1][k].index = memo.index
      /\ lastOp.ret.made[1][k].record.ref = 0
      /\ lastOp.ret.made[1][k].record.state = state }
ClassifiedAs(memo, rec) ==
  IF memo.acc
  THEN IF memo.nOut > 0
       THEN rec.type = "TransferOut" /\ rec.nActions = memo.nOut
       ELSE rec.type = "AggregateNotes" /\ rec.nActions = 0
  ELSE rec.type = "TransferIn" /\ rec.nActions = memo.nIn /\ rec.fee = 0
TransfersClassified(memos, state) ==
  \A i \in 1 .. Len(memos) :
    IsTransferAt(memos[i].index) =>
      /\ \A k \in MadeFor(memos[i], state) :
           ClassifiedAs(memos[i], lastOp.ret.made[1][k].record)
      /\ Cardinality(MadeFor(memos[i], state)) <= 1
      /\ ~ Contains(lastOp.ret.made[2], memos[i].index) =>
           Cardinality(MadeFor(memos[i], state)) = 1

\* C31: a fetched transfer yields one record for its memo: with a decrypted
\* account TransferOut with one action per output note, or AggregateNotes
\* without action when the memo has no output note; without a decrypted
\* account TransferIn with one action per input note and fee 0.
C31_TransferClassified ==
  lastOp.op \in { "commit", "retry" } =>
    /\ TransfersClassified(lastOp.ret.given[1], "Mined")
    /\ TransfersClassified(lastOp.ret.given[4], "Pending")
C31_Witness ==
  /\ lastOp.op \in { "commit", "retry" }
  /\ \E k \in 1 .. Len(lastOp.ret.made[1]) :
       /\ lastOp.ret.made[1][k].record.type = "TransferIn"
       /\ lastOp.ret.made[1][k].record.nActions = 1
  /\ \E k \in 1 .. Len(lastOp.ret.made[1]) : lastOp.ret.made[1][k].record.type = "TransferOut"

\* the call of waitJobTxHash for job j ends in this step
WaitEnds(j) ==
  /\ jobPc[j].wait \in { "none", "polling" }
  /\ jobPc'[j].wait \notin { "none", "polling" }

C36_WaitTerminates ==
  \A j \in Jobs :
    (jobPc[j].wait = "polling" /\ ~ Polling(j)) ~> (jobPc[j].wait # "polling")

\* C33: the marker of the sync in flight is cleared in the end, and a
\* caller awaiting it goes on, whatever way the sync ends.
C33_MarkerReleased ==
  /\ (syncHistoryPromise # "none") ~> (syncHistoryPromise = "none")
  /\ \A c \in Callers : (callerPc[c] = "waiting") ~> (callerPc[c] # "waiting")

\* the mined memo at the index is accounted for: it has a Mined record in
\* TX_STORE, or it is among the unparsed memos, or its index is in the
\* persisted fail_indexes
Accounted(index) ==
  \/ index \in DOMAIN dbTx /\ Deref(recs, dbTx[index]).state = "Mined"
  \/ index \in MapKeys(unparsedMemo)
  \/ dbFailIdx.present /\ Contains(dbFailIdx.idxs, index)

\* C34: after a pass and after a restart every mined memo at or below the
\* sync index is accounted for.
C34_SyncIndexSound ==
  lastOp.op \in { "commit", "retry", "restart", "crash" } =>
    \A index \in DOMAIN dbMemo : index <= syncIndex => Accounted(index)

\* the places of the list getAllHistory returned that hold the record r
ListedAt(r) == { i \in 1 .. Len(lastOp.ret) : lastOp.ret[i].ref = r }
\* the records of the jobs whose failure callback has ended
Migrated == { r \in DOMAIN recs :
                /\ recs[r].state \in { "RejectedByRelayer", "RejectedByPool" }
                /\ \A j \in Jobs : jobPc[j].state \notin { "failing", "reverting" } }
InConfirmed(r) == \E index \in DOMAIN currentHistory : currentHistory[index].ref = r
InSpeculative(r) == \E i \in 1 .. Len(pendingLocalHistory) : pendingLocalHistory[i].ref = r

\* C35: a record that a failure callback has migrated to the failed set
\* occurs exactly once in the list every later getAllHistory returns: in the
\* failed part, and neither in the confirmed cache nor in the speculative
\* list.
C35_FailedListedOnce ==
  lastOp.op = "return" =>
    \A r \in Migrated :
      /\ Cardinality(ListedAt(r)) = 1
      /\ FailedOccurrences(r) = 1
      /\ ~ InConfirmed(r)
      /\ ~ InSpeculative(r)

\* the mined memos saved since the running pass took its snapshot
LateMemos == { e \in Range(unparsedMemo) : sync = "pass" /\ ~ Contains(conv.mined.memos, e.v) }
\* the cache holds a mined record at the index of the memo
MinedRecordAt(history, key) ==
  \E index \in DOMAIN history : MemoKey(index) = key /\ history[index].state = "Mined"

\* C37: a mined memo saved while a pass is in flight is, when the pass has
\* ended, either reconciled into a mined record of its index or still among
\* the unreconciled memos for the next pass.
C37_LateMemoKept ==
  [][ lastOp'.op \in { "commit", "retry" } =>
        \A e \in LateMemos :
          \/ Contains(unparsedMemo', e)
          \/ MinedRecordAt(currentHistory', e.k) ]_vars

\* the record r belongs to a job the job->records map still holds
OfTrackedJob(r) == \E j \in DOMAIN queuedTxs : Contains(queuedTxs[j], r)

\* C38: every entry h -> records of the hash->records map holds only records
\* whose txHash is h, and no record of a job that the job->records map has
\* dropped is reachable through it.
C38_HashIndexConsistent ==
  \A h \in DOMAIN sentTxs :
    \A i \in 1 .. Len(sentTxs[h]) :
      /\ recs[sentTxs[h][i]].txHash = h
      /\ OfTrackedJob(sentTxs[h][i])

\* a step of a rollbackHistory call that is past its wait, and its argument
RollbackActs ==
  \/ lastOp'.op \in { "rollbackResume", "rollbackStep", "rollbackDone" }
  \/ lastOp'.op = "rollbackCall" /\ rb'.pc # "waiting"
BelowIn(f, N) == [ k \in { x \in DOMAIN f : x < N } |-> f[k] ]
MemosBelow(m, N) == SelectSeq(m, LAMBDA e : e.v.index < N)

\* C39: rollbackHistory(N) changes no record and no memo with an index below
\* N, in the caches and in the tables, and it leaves the failed set (cache
\* and table), the job->records map and the hash->records map as they were.
C39_RollbackBounded ==
  [][ RollbackActs =>
        LET N == lastOp'.arg
        IN /\ BelowIn(currentHistory', N) = BelowIn(currentHistory, N)
           /\ BelowIn(dbTx', N) = BelowIn(dbTx, N)
           /\ MemosBelow(unparsedMemo', N) = MemosBelow(unparsedMemo, N)
           /\ MemosBelow(unparsedPendingMemo', N) = MemosBelow(unparsedPendingMemo, N)
           /\ BelowIn(dbMemo', N) = BelowIn(dbMemo, N)
           /\ BelowIn(dbPendingMemo', N) = BelowIn(dbPendingMemo, N)
           /\ UNCHANGED << failedHistory, dbFailed, queuedTxs, sentTxs, recs >> ]_vars

\* a rollback to the second transaction has ended: the record and the memo
\* of the first are in place next to a failed record, the sync index is reset
C39_Witness ==
  /\ lastOp.op = "rollbackDone" /\ lastOp.arg = IndexOf(1)
  /\ 0 \in DOMAIN currentHistory /\ currentHistory[0].state = "Mined"
  /\ 0 \in DOMAIN dbTx /\ 0 \in DOMAIN dbMemo
  /\ failedHistory # << >> /\ dbFailed # << >>
  /\ syncIndex = -1

====
